---- MODULE Spec2Model ----
(***************************************************************************)
(* Block-aware finite-element assembly (dolfin::fem::Assembler) as a state *)
(* machine.  Every process (rank) of the MPI group runs the same assemble  *)
(* call on its own mesh partition; the global matrix and the ghosted       *)
(* vector are the shared containers the ranks insert into.                 *)
(***************************************************************************)
EXTENDS Integers, Sequences, FiniteSets, TLC

(***************************************************************************)
(* Bounds of the model.                                                    *)
(***************************************************************************)
\* cells of the interval mesh
NCells == 2
\* largest number of block rows / block columns of the form array
MaxBlocks == 2
\* largest number of MPI processes
MaxProcs == 2
\* largest number of assemble calls issued by the caller in one run
MaxCalls == 2
\* largest number of slaves of a multi-point constraint
MaxSlaves == 2
\* largest number of masters of one slave
MaxMasters == 2
\* largest number of calls of sub-system manager functions in one run
MaxLifecycleCalls == 6
\* largest number of calls of NonlinearProblem::form in one run
MaxFormCalls == 4

(***************************************************************************)
(* Collaborators: mesh partition, dof maps and index maps.                 *)
(* Field k uses continuous P1 elements (a dof per vertex) when k is even   *)
(* and piecewise constants (a dof per cell) when k is odd, so the blocks   *)
(* of a form array have index maps of different sizes.                     *)
(***************************************************************************)
Cells == 0 .. (NCells - 1)

IsP1(V) == V % 2 = 0

\* dofs per cell of space V
CellDim(V) == IF IsP1(V) THEN 2 ELSE 1

\* global dofs of space V
GlobalDofs(V) == IF IsP1(V) THEN 0 .. NCells ELSE 0 .. (NCells - 1)

\* rank that owns cell c when the mesh is split over P processes
CellRank(P, c) == (c * P) \div NCells

\* the cells a rank iterates over (mesh::MeshRange<mesh::Cell>), in order
RankCells(P, r) == {c \in Cells : CellRank(P, c) = r}

\* global dofs of cell c in space V, by local position in the cell
CellGlobalDofs(V, c) == IF IsP1(V) THEN [p \in 0 .. 1 |-> c + p] ELSE [p \in 0 .. 0 |-> c]

\* global dofs a rank sees (touched by one of its cells)
LocalGlobalDofs(P, r, V) ==
  {g \in GlobalDofs(V) : \E c \in RankCells(P, r) : \E p \in 0 .. (CellDim(V) - 1) : CellGlobalDofs(V, c)[p] = g}

\* the owner of a global dof: the lowest rank that sees it
DofOwner(P, V, g) == CHOOSE r \in 0 .. (P - 1) :
  /\ g \in LocalGlobalDofs(P, r, V)
  /\ \A q \in 0 .. (P - 1) : g \in LocalGlobalDofs(P, q, V) => r <= q

OwnedGlobalDofs(P, r, V) == {g \in LocalGlobalDofs(P, r, V) : DofOwner(P, V, g) = r}

GhostGlobalDofs(P, r, V) == LocalGlobalDofs(P, r, V) \ OwnedGlobalDofs(P, r, V)

\* local index of a global dof on a rank: owned dofs first, ghosts after
LocalIndex(P, r, V, g) ==
  IF g \in OwnedGlobalDofs(P, r, V)
  THEN Cardinality({h \in OwnedGlobalDofs(P, r, V) : h < g})
  ELSE Cardinality(OwnedGlobalDofs(P, r, V)) + Cardinality({h \in GhostGlobalDofs(P, r, V) : h < g})

Fields == 0 .. (MaxBlocks - 1)

\* the dof map of space V on rank r of P: the index map (owned and ghost
\* counts, local_to_global, its inverse) and the cell dofs
DofMapOf(P, r, V) ==
  [owned  |-> Cardinality(OwnedGlobalDofs(P, r, V)),
   ghosts |-> Cardinality(GhostGlobalDofs(P, r, V)),
   g2l    |-> [g \in LocalGlobalDofs(P, r, V) |-> LocalIndex(P, r, V, g)],
   l2g    |-> [k \in 0 .. (Cardinality(LocalGlobalDofs(P, r, V)) - 1) |->
                CHOOSE g \in LocalGlobalDofs(P, r, V) : LocalIndex(P, r, V, g) = k],
   cells  |-> [c \in RankCells(P, r) |->
                [p \in 0 .. (CellDim(V) - 1) |-> LocalIndex(P, r, V, CellGlobalDofs(V, c)[p])]]]

DofMaps == [P \in 1 .. MaxProcs |-> [r \in 0 .. (P - 1) |-> [V \in Fields |-> DofMapOf(P, r, V)]]]

\* common::IndexMap::size(MapSize::OWNED | GHOSTS | ALL)
SizeOwned(P, r, V) == DofMaps[P][r][V].owned

SizeGhosts(P, r, V) == DofMaps[P][r][V].ghosts

SizeAll(P, r, V) == SizeOwned(P, r, V) + SizeGhosts(P, r, V)

GlobalToLocal(P, r, V, g) == DofMaps[P][r][V].g2l[g]

\* IndexMap::local_to_global
LocalToGlobal(P, r, V, k) == DofMaps[P][r][V].l2g[k]

\* GenericDofMap::cell_dofs(cell): local dof indices of the cell
cell_dofs(P, r, V, c) == DofMaps[P][r][V].cells[c]

\* the cell range of a rank, in order of iteration
MeshCells ==
  [P \in 1 .. MaxProcs |-> [r \in 0 .. (P - 1) |->
    [n \in 0 .. (Cardinality(RankCells(P, r)) - 1) |->
      CHOOSE c \in RankCells(P, r) : Cardinality({d \in RankCells(P, r) : d < c}) = n]]]

(***************************************************************************)
(* Collaborators: forms, function spaces, kernels, boundary conditions.    *)
(***************************************************************************)
\* Form::function_space(axis) of block form (i, j): row i is tested against
\* field i, column j is the trial field j
function_space(i, j, axis) == IF axis = 0 THEN i ELSE j

\* FunctionSpace::contains: no sub-spaces are modelled
contains(V, W) == V = W

\* Form::tabulate_tensor for a bilinear form: the dense element matrix of
\* cell c, an opaque positive function of the kernel, the form and the cell
tabulate_tensor(k, i, j, c) ==
  [p \in 0 .. (CellDim(i) - 1) |->
    [q \in 0 .. (CellDim(j) - 1) |-> k + c + 2 * p + q + i + 2 * j]]

\* Form::tabulate_tensor for a linear form: the dense element vector
tabulate_vector(k, i, c) == [p \in 0 .. (CellDim(i) - 1) |-> k + c + p + 2 * i]

\* the empty DirichletBC::Map
EmptyMap == [d \in {} |-> 0]

\* std::map assignment of every entry of n into m (later entries win)
MapMerge(m, n) ==
  [d \in (DOMAIN m) \cup (DOMAIN n) |-> IF d \in DOMAIN n THEN n[d] ELSE m[d]]

\* the entries of bc a rank holds for the global dofs in G, by local index
BcEntries(P, r, bc, G) ==
  LET S == {GlobalToLocal(P, r, bc.space, g) : g \in G}
  IN  [d \in S |-> bc.vals[LocalToGlobal(P, r, bc.space, d)]]

\* DirichletBC::get_boundary_values: a pointwise condition is evaluated on
\* every local dof, any other method finds the dofs the rank owns
get_boundary_values(P, r, bc, m) ==
  LET local == DOMAIN DofMaps[P][r][bc.space].g2l
      G == IF bc.method = "pointwise"
           THEN (DOMAIN bc.vals) \cap local
           ELSE {g \in (DOMAIN bc.vals) \cap local : GlobalToLocal(P, r, bc.space, g) < SizeOwned(P, r, bc.space)}
  IN  MapMerge(m, BcEntries(P, r, bc, G))

\* DirichletBC::gather: merge the values of ghost dofs prescribed by their
\* owning rank
gather(P, r, bc, m) ==
  LET local == DOMAIN DofMaps[P][r][bc.space].g2l
      G == {g \in (DOMAIN bc.vals) \cap local : GlobalToLocal(P, r, bc.space, g) >= SizeOwned(P, r, bc.space)}
  IN  MapMerge(m, BcEntries(P, r, bc, G))

\* a variant of the loop that takes the values of every condition, whatever
\* its function space
RECURSIVE CollectBcsAnySpace(_, _, _, _, _, _)
CollectBcsAnySpace(P, r, V, list, n, world) ==
  IF n = 0 THEN EmptyMap
  ELSE LET m  == CollectBcsAnySpace(P, r, V, list, n - 1, world)
           bc == list[n]
           m1 == get_boundary_values(P, r, bc, m)
       IN  IF world > 1 /\ bc.method # "pointwise"
           THEN gather(P, r, bc, m1)
           ELSE m1

\* the loop over bcs that fills a DirichletBC::Map for space V: the first n
\* conditions of the list, on a process group of size world
RECURSIVE CollectBcs(_, _, _, _, _, _)
CollectBcs(P, r, V, list, n, world) ==
  IF n = 0 THEN EmptyMap
  ELSE LET m  == CollectBcs(P, r, V, list, n - 1, world)
           bc == list[n]
       IN  IF contains(V, bc.space)
           THEN LET m1 == get_boundary_values(P, r, bc, m)
                IN  IF world > 1 /\ bc.method # "pointwise"
                    THEN gather(P, r, bc, m1)
                    ELSE m1
           ELSE m

\* boundary_values[axis] of the single-block matrix assembly
AxisBoundaryValues(P, r, V, list) == CollectBcs(P, r, V, list, Len(list), P)

\* boundary_values of the unit-diagonal pass of assemble(A): the gather is
\* decided by MPI::size(MPI_COMM_WORLD), not by the size of the mesh's
\* communicator
DiagBoundaryValues(P, r, V, list, world) == CollectBcs(P, r, V, list, Len(list), world)

\* boundary_values of set_bc
SetBcBoundaryValues(P, r, V, list) == CollectBcs(P, r, V, list, Len(list), P)

\* a variant in which a rank gathers only the conditions it holds values of
RECURSIVE GatherCallsLocal(_, _, _, _, _, _)
GatherCallsLocal(P, r, spaces, list, n, world) ==
  IF n = 0 THEN <<>>
  ELSE LET bc == list[n]
           Hit(e) == /\ contains(e[3], bc.space)
                     /\ world > 1 /\ bc.method # "pointwise"
                     /\ DOMAIN get_boundary_values(P, r, bc, EmptyMap) # {}
       IN  GatherCallsLocal(P, r, spaces, list, n - 1, world)
             \o SelectSeq([x \in 1 .. Len(spaces) |-> <<"gather", n, spaces[x]>>], Hit)

\* the calls of DirichletBC::gather rank r issues in the loop over the first
\* n conditions that fills one map per space of spaces, in call order: the
\* loop over bcs is the outer one, the loop over the axes the inner one
RECURSIVE GatherCalls(_, _, _, _, _, _)
GatherCalls(P, r, spaces, list, n, world) ==
  IF n = 0 THEN <<>>
  ELSE LET bc == list[n]
           Hit(e) == /\ contains(e[3], bc.space)
                     /\ world > 1 /\ bc.method # "pointwise"
       IN  GatherCalls(P, r, spaces, list, n - 1, world)
             \o SelectSeq([x \in 1 .. Len(spaces) |-> <<"gather", n, spaces[x]>>], Hit)

(***************************************************************************)
(* Collaborator: the global matrix (la::PETScMatrix).  Its entries are     *)
(* keyed by <<row field, global row dof, column field, global column dof>>;*)
(* a rank addresses them through local indices of the (sub-)matrix it      *)
(* holds.                                                                  *)
(***************************************************************************)
NoKey == <<-1, -1>>

\* local index k of field V on a rank, as a (field, global dof) pair
FieldIndex(P, r, V, k) ==
  IF k >= 0 /\ k < SizeAll(P, r, V) THEN <<V, LocalToGlobal(P, r, V, k)>> ELSE NoKey

\* sum of the ALL sizes of fields 0 .. n - 1
RECURSIVE SumAll(_, _, _)
SumAll(P, r, n) == IF n = 0 THEN 0 ELSE SumAll(P, r, n - 1) + SizeAll(P, r, n - 1)

\* the local-to-global map init_monolithic_matrix attaches to the merged
\* matrix: the local indices of field 0 (owned, then ghosts), then those of
\* field 1, and so on
MonolithicIndex(P, r, nf, R) ==
  IF \E f \in 0 .. (nf - 1) : SumAll(P, r, f) <= R /\ R < SumAll(P, r, f + 1)
  THEN LET f == CHOOSE f \in 0 .. (nf - 1) : SumAll(P, r, f) <= R /\ R < SumAll(P, r, f + 1)
       IN  FieldIndex(P, r, f, R - SumAll(P, r, f))
  ELSE NoKey

\* a view is the (sub-)matrix a rank inserts into: kind "nest" is block
\* (i, j) of a MATNEST, kind "local" the local sub-matrix of the merged
\* matrix behind index sets starting at off0 / off1, kind "single" the
\* matrix itself
ViewRow(P, r, view, k) ==
  IF view.kind = "local"
  THEN IF k >= 0 /\ k < view.n0 THEN MonolithicIndex(P, r, view.nr, view.off0 + k) ELSE NoKey
  ELSE FieldIndex(P, r, view.i, k)

ViewCol(P, r, view, k) ==
  IF view.kind = "local"
  THEN IF k >= 0 /\ k < view.n1 THEN MonolithicIndex(P, r, view.nc, view.off1 + k) ELSE NoKey
  ELSE FieldIndex(P, r, view.j, k)

ViewKey(P, r, view, k0, k1) == ViewRow(P, r, view, k0) \o ViewCol(P, r, view, k1)

\* PETScMatrix::add_local of a dense block with row indices rows and column
\* indices cols
add_local(val, P, r, view, block, rows, cols) ==
  LET rk == [p \in DOMAIN rows |-> ViewRow(P, r, view, rows[p])]
      ck == [q \in DOMAIN cols |-> ViewCol(P, r, view, cols[q])]
  IN  [key \in DOMAIN val |->
        IF \E p \in DOMAIN rows, q \in DOMAIN cols : rk[p] \o ck[q] = key
        THEN LET pq == CHOOSE pq \in (DOMAIN rows) \X (DOMAIN cols) : rk[pq[1]] \o ck[pq[2]] = key
             IN  val[key] + block[pq[1]][pq[2]]
        ELSE val[key]]

\* PETScMatrix::set_local of the value 1 at (d, d) for every d in rows
set_local_diagonal(val, P, r, view, rows) ==
  LET keys == {ViewKey(P, r, view, d, d) : d \in rows}
  IN  [key \in DOMAIN val |-> IF key \in keys THEN 1 ELSE val[key]]

\* PETScMatrix::add_local of the value 1 at (d, d) for every d in rows
add_local_diagonal(val, P, r, view, rows) ==
  LET keys == {ViewKey(P, r, view, d, d) : d \in rows}
  IN  [key \in DOMAIN val |-> IF key \in keys THEN val[key] + 1 ELSE val[key]]

\* the entries init_nest_matrix / init_monolithic_matrix allocate for a form
\* array of nr x nc blocks, and init_matrix for one form
BlockKeys(i, j) == {<<i, g, j, h>> : g \in GlobalDofs(i), h \in GlobalDofs(j)}

ZeroMatrix(nr, nc) ==
  [key \in UNION {BlockKeys(i, j) : i \in 0 .. (nr - 1), j \in 0 .. (nc - 1)} |-> 0]

(***************************************************************************)
(* State.                                                                  *)
(***************************************************************************)
VARIABLES
  mpi_size,         \* MPI::size of the process group
  a,                \* Assembler::_a: a[i][j] is TRUE for a form, FALSE for null
  l,                \* Assembler::_l: l[i] is TRUE for a form, FALSE for null
  bcs,              \* Assembler::_bcs
  kern,             \* the kernel the forms were compiled to
  A,                \* the global matrix: [kind, val]
  b,                \* the global vector: [kind, val], val per rank
  call,             \* the assemble call in progress or last finished
  ncalls,           \* calls issued so far
  pc,               \* per rank: position in the call
  blk,              \* per rank: block cursor <<i, j>>
  cellpos,          \* per rank: cells of the cell loop already visited
  offset,           \* per rank: offset_row / offset_col (matrix), offset (vector)
  boundary_values,  \* per rank: boundary_values[0], boundary_values[1]
  ins_mode,         \* per rank, per (sub-)container: pending insertion mode
  n_final,          \* FINAL synchronisations performed in the current call
  diag_rows,        \* per rank: <<i, j, row>> of every unit diagonal inserted
  assembled,        \* blocks <<i, j>> whose cell loop has run in the current call
  b_vec,            \* per rank: the dense buffer of the merged vector branch
  n_reduce,         \* per block: ghost reductions performed in the current call
  bc_done,          \* per rank: blocks whose boundary entries set_bc has written
  world_size,       \* MPI::size(MPI_COMM_WORLD)
  collectives,      \* per rank: the collective calls issued in the current call
  mpc,              \* the MultiPointConstraint object: its space and arrays
  mpc_ret,          \* the value its last member call returned
  mpc_ncalls,       \* calls of cell_classification so far, the constructor's included
  sys,              \* the SystemAssembler: its forms, conditions and position
  sys_A,            \* the matrix the SystemAssembler fills
  sys_b,            \* the vector the SystemAssembler fills
  lib,              \* the MPI and PETSc libraries: their flags and the calls received
  ssm,              \* the singleton SubSystemsManager: petsc_initialized, control_mpi
  mgr_ret,          \* the last call of a SubSystemsManager function and its result
  mgr_ncalls,       \* calls of SubSystemsManager functions so far
  nlp               \* a NonlinearProblem: its subclass, _called, warnings issued

\* the variables of the assembler and of the containers it fills
asmvars == <<mpi_size, a, l, bcs, kern, A, b, call, ncalls, pc, blk, cellpos, offset,
             boundary_values, ins_mode, n_final, diag_rows, assembled, b_vec, n_reduce,
             bc_done, world_size, collectives>>

\* the variables of the multi-point constraint
mpcvars == <<mpc, mpc_ret, mpc_ncalls>>

\* the variables of the system assembler
sysvars == <<sys, sys_A, sys_b>>

\* the variables of the sub-system managers and of the libraries they start
libvars == <<lib, ssm, mgr_ret, mgr_ncalls>>

\* the variables of a NonlinearProblem
nlpvars == <<nlp>>

vars == <<asmvars, mpcvars, sysvars, libvars, nlpvars>>

matvars == <<ins_mode, n_final, diag_rows, assembled>>

vecvars == <<b_vec, n_reduce, bc_done>>

\* what no assemble call changes: the assembler's inputs and the objects the
\* assembler does not refer to
config == <<mpi_size, a, l, bcs, kern, world_size, mpcvars, sysvars, libvars, nlpvars>>

Procs == 0 .. (mpi_size - 1)

\* _a.size() and _a[0].size()
NRows == Cardinality(DOMAIN a)

NCols == Cardinality(DOMAIN a[0])

BlockTypes == {"nested", "monolithic"}

(***************************************************************************)
(* The inputs a run is started with.                                       *)
(***************************************************************************)
OffDiagonal(nr, nc) == {ij \in (0 .. (nr - 1)) \X (0 .. (nc - 1)) : ij[1] # ij[2]}

FormArray(nr, nc, N) == [i \in 0 .. (nr - 1) |-> [j \in 0 .. (nc - 1) |-> <<i, j>> \notin N]]

\* rectangular arrays of up to MaxBlocks x MaxBlocks forms with at most one
\* null off-diagonal block
FormArrays ==
  UNION {{FormArray(nr, nc, N) : N \in {{}} \cup {{ij} : ij \in OffDiagonal(nr, nc)}} :
         nr \in 1 .. MaxBlocks, nc \in 1 .. MaxBlocks}

Kernels == {1}

\* linear-form arrays with null entries: the first nn of nl entries are forms
LinearForms ==
  {[i \in 0 .. (nl - 1) |-> i < nn] : nl \in 1 .. MaxBlocks, nn \in 0 .. MaxBlocks}

Bc(V, method, vals) == [space |-> V, method |-> method, vals |-> vals]

BcLists ==
  { <<>>,
    <<Bc(0, "topological", (0 :> 10) @@ (NCells :> 11))>>,
    <<Bc(0, "topological", (1 :> 12))>>,
    <<Bc(0, "pointwise", (1 :> 13))>>,
    <<Bc(0, "geometric", (0 :> 14)), Bc(1, "pointwise", (0 :> 15))>>,
    <<Bc(0, "geometric", (0 :> 16)), Bc(0, "topological", (0 :> 17) @@ (1 :> 18))>> }

(***************************************************************************)
(* Pure parts of Assembler::assemble(la::PETScMatrix&, BlockType).         *)
(***************************************************************************)
\* a variant that allocates merged storage whenever monolithic is requested
InitMatrixKindAlwaysMerged(block_type, block_matrix) ==
  IF block_type = "nested" THEN "nest"
  ELSE IF block_type = "monolithic" THEN "mono"
  ELSE "single"

\* the storage allocated for an empty matrix
InitMatrixKind(block_type, block_matrix) ==
  IF block_type = "nested" THEN "nest"
  ELSE IF block_matrix /\ block_type = "monolithic" THEN "mono"
  ELSE "single"

\* the branch taken: is_matnest, else block_matrix, else the single form
MatrixBranch(kind, block_matrix) ==
  IF kind = "nest" THEN "nested"
  ELSE IF block_matrix THEN "monolithic"
  ELSE "single"

\* a variant in which every branch skips a null block
NullBlockSkipped(branch) == "skip"

\* what a branch does with a null block: the nested branch does nothing,
\* the merged branch throws std::runtime_error
NullBlock(branch) == IF branch = "monolithic" THEN "throw" ELSE "skip"

\* the next block of the row-major double loop
NextBlock(i, j, nc) == IF j + 1 < nc THEN <<i, j + 1>> ELSE <<i + 1, 0>>

\* the n-th cell of the rank's cell range
NthCell(P, r, n) == MeshCells[P][r][n]

NumCells(P, r) == Cardinality(DOMAIN MeshCells[P][r])

\* zero the rows and the columns of the element matrix that belong to
\* Dirichlet dofs
ZeroRows(Ae, dmap0, bv0) ==
  [p \in DOMAIN Ae |-> IF dmap0[p] \in DOMAIN bv0 THEN [q \in DOMAIN Ae[p] |-> 0] ELSE Ae[p]]

\* a variant that leaves the columns of Dirichlet dofs as the kernel filled them
ZeroColsKept(Ae, dmap1, bv1) == Ae

ZeroCols(Ae, dmap1, bv1) ==
  [p \in DOMAIN Ae |-> [q \in DOMAIN Ae[p] |-> IF dmap1[q] \in DOMAIN bv1 THEN 0 ELSE Ae[p][q]]]

ZeroBcRowsCols(Ae, dmap0, dmap1, bv0, bv1) == ZeroCols(ZeroRows(Ae, dmap0, bv0), dmap1, bv1)

\* the (sub-)matrix block (i, j) is inserted into, per branch
BlockView(branch, P, r, i, j, off) ==
  [kind |-> IF branch = "nested" THEN "nest" ELSE IF branch = "monolithic" THEN "local" ELSE "single",
   i |-> function_space(i, j, 0), j |-> function_space(i, j, 1),
   off0 |-> off.row, off1 |-> off.col,
   n0 |-> SizeAll(P, r, function_space(i, j, 0)),
   n1 |-> SizeAll(P, r, function_space(i, j, 1)),
   nr |-> NRows, nc |-> NCols]

\* the (sub-)container whose insertion mode an operation changes
ContainerOf(branch, i, j) == IF branch = "nested" THEN <<i, j>> ELSE <<-1, -1>>

Containers == ((0 .. (MaxBlocks - 1)) \X (0 .. (MaxBlocks - 1))) \cup {<<-1, -1>>}

\* a variant in which the intermediate synchronisation is left out
ApplyFlushOmitted(mode, cid) == mode

\* PETScMatrix::apply(FLUSH) on one (sub-)container
ApplyFlush(mode, cid) == [mode EXCEPT ![cid] = "none"]

\* PETScMatrix::apply(FINAL) on the global matrix
ApplyFinal(mode) == [cid \in DOMAIN mode |-> "none"]

\* a variant in which the merged branch inserts no unit diagonal
DiagonalRowsNoneMerged(branch, bv, map0_size_owned) ==
  IF branch = "monolithic" THEN {} ELSE DOMAIN bv

\* the boundary rows of a diagonal block that receive the unit value
DiagonalRows(branch, bv, map0_size_owned) ==
  IF branch = "monolithic" THEN {d \in DOMAIN bv : d < map0_size_owned} ELSE DOMAIN bv

\* the insertion of the unit diagonal: set_local, add_local in the merged branch
InsertDiagonal(branch, val, P, r, view, rows) ==
  IF branch = "monolithic"
  THEN add_local_diagonal(val, P, r, view, rows)
  ELSE set_local_diagonal(val, P, r, view, rows)

DiagonalMode(branch) == IF branch = "monolithic" THEN "add" ELSE "set"

(***************************************************************************)
(* Initial state: an Assembler constructed from a form array, linear forms *)
(* and boundary conditions; both containers are still empty.               *)
(***************************************************************************)
NoCall ==
  [op |-> "none", block_type |-> "nested", status |-> "none", branch |-> "none",
   was_empty |-> FALSE, prior_kind |-> "empty", prior_val |-> <<>>,
   oob |-> FALSE]

ZeroOffset == [row |-> 0, col |-> 0, vec |-> 0]

(***************************************************************************)
(* MultiPointConstraint (SubSystemsManager.cpp:146-340): the partition of  *)
(* the cells of a rank into slave cells and normal cells, and the          *)
(* cell-to-slave mapping in compressed form.                               *)
(***************************************************************************)
\* the dof numbers a slave list is drawn from; the largest is the dof of no cell
SlaveDofs == 0 .. (NCells + 1)

\* slave lists: at most MaxSlaves distinct dofs, in any order
SlaveLists ==
  {s \in UNION {[1 .. n -> SlaveDofs] : n \in 0 .. MaxSlaves} :
     \A x \in DOMAIN s : \A y \in DOMAIN s : x # y => s[x] # s[y]}

\* what the inner loop over the dofs of a cell pushes for one slave: the
\* slave, once per dof of the cell that equals it
SlaveHits(dofs, slave) ==
  [x \in 1 .. Cardinality({i \in DOMAIN dofs : dofs[i] = slave}) |-> slave]

\* what the loop over the first n slaves pushes onto _cell_to_slave for a cell
RECURSIVE CellSlaves(_, _, _)
CellSlaves(dofs, slaves, n) ==
  IF n = 0 THEN <<>>
  ELSE CellSlaves(dofs, slaves, n - 1) \o SlaveHits(dofs, slaves[n])

\* the body of the loop over the cells: m is the object, j the running
\* count of pushed slaves of this call, c the cell
ClassifyCell(m, j, c) ==
  LET dofs == cell_dofs(m.P, m.rank, m.V, c)
      hits == CellSlaves(dofs, m.slaves, Len(m.slaves))
  IN  IF hits # <<>>
      THEN [m EXCEPT !.cell_to_slave = @ \o hits,
                     !.slave_cells = Append(@, c),
                     !.offsets_cell_to_slave = Append(@, j + Len(hits))]
      ELSE [m EXCEPT !.normal_cells = Append(@, c)]

\* the loop over the first n cells of the rank; the result is <<object, j>>
RECURSIVE ClassifyCells(_, _)
ClassifyCells(m, n) ==
  IF n = 0 THEN <<[m EXCEPT !.offsets_cell_to_slave = Append(@, 0)], 0>>
  ELSE LET before == ClassifyCells(m, n - 1)
           c == MeshCells[m.P][m.rank][n - 1]
           after == ClassifyCell(before[1], before[2], c)
       IN  <<after, before[2] + (Len(after.cell_to_slave) - Len(before[1].cell_to_slave))>>

\* the cache test of cell_classification
AlreadyComputed(m) == Len(m.slave_cells) > 0

\* the object after a call of cell_classification
Classified(m) ==
  IF AlreadyComputed(m) THEN m
  ELSE ClassifyCells(m, Cardinality(DOMAIN MeshCells[m.P][m.rank]))[1]

\* the numbers of masters of the slaves of a list of n slaves
MasterCounts(n) == [1 .. n -> 1 .. MaxMasters]

\* the offsets array of the masters: entry k (0-based) is the number of
\* masters of the slaves before slave k; one entry more than slaves
RECURSIVE MasterOffsets(_, _)
MasterOffsets(counts, n) ==
  IF n = 0 THEN <<0>>
  ELSE LET before == MasterOffsets(counts, n - 1)
       IN  Append(before, before[n] + counts[n])

\* the masters and coefficients arrays: one entry per master, slave by slave
MasterDofs(total) == [j \in 1 .. total |-> 20 + j]

MasterCoefficients(total) == [j \in 1 .. total |-> j]

\* the members of a freshly initialised object
NewMPC(P, r, V, slaves, counts) ==
  LET offsets == MasterOffsets(counts, Len(slaves))
      total   == offsets[Len(slaves) + 1]
  IN  [P |-> P, rank |-> r, V |-> V, slaves |-> slaves,
       masters |-> MasterDofs(total), coefficients |-> MasterCoefficients(total),
       offsets |-> offsets,
       slave_cells |-> <<>>, normal_cells |-> <<>>,
       offsets_cell_to_slave |-> <<>>, cell_to_slave |-> <<>>]

\* the test of the assert of masters(i) and coefficients(i): a signed
\* comparison of the 64-bit index with the length of the array
IndexAsserted(arr, i) == i < Len(arr)

\* position k (0-based) lies inside an array
InsideArray(arr, k) == k >= 0 /\ k < Len(arr)

\* entry k (0-based) of an array
At(arr, k) == arr[k + 1]

\* every read of the loop for (j = _offsets[i]; j < _offsets[i + 1]; j++)
\* lies inside the array it reads
ReadsInside(arr, offsets, i) ==
  /\ InsideArray(offsets, i)
  /\ InsideArray(offsets, i + 1)
  /\ \A j \in At(offsets, i) .. (At(offsets, i + 1) - 1) : InsideArray(arr, j)

\* what the loop pushes: arr[j] for j from _offsets[i] to _offsets[i + 1] - 1
EntriesOf(arr, offsets, i) ==
  [x \in 1 .. (At(offsets, i + 1) - At(offsets, i)) |-> At(arr, At(offsets, i) + x - 1)]

\* the outcomes of a call whose reads leave an array: the value read is
\* arbitrary, so the loop does not run, or runs to the last entry of the
\* array it copies from, or the read faults
OutsideOutcomes(arr, offsets, i) ==
  {[status |-> "fault", val |-> <<>>], [status |-> "returned", val |-> <<>>]}
  \cup (IF InsideArray(offsets, i)
        THEN {[status |-> "returned",
               val |-> [x \in 1 .. (Len(arr) - At(offsets, i)) |-> At(arr, At(offsets, i) + x - 1)]]}
        ELSE {})

\* the outcomes of masters(i) / coefficients(i) on the array arr
RangeOutcomes(arr, offsets, i) ==
  IF ~IndexAsserted(arr, i) THEN {[status |-> "assert", val |-> <<>>]}
  ELSE IF ReadsInside(arr, offsets, i)
  THEN {[status |-> "returned", val |-> EntriesOf(arr, offsets, i)]}
  ELSE OutsideOutcomes(arr, offsets, i)

\* the indices masters(i) and coefficients(i) are called with
MasterIndices == -1 .. (MaxSlaves * MaxMasters)

NoReturn == [op |-> "none", val |-> <<>>]

\* no multi-point constraint has been constructed
MPCAbsent ==
  /\ mpc = NewMPC(1, 0, 0, <<>>, <<>>)
  /\ mpc_ret = NoReturn
  /\ mpc_ncalls = 0

(***************************************************************************)
(* SystemAssembler (declared in NonlinearProblem.h:125-247): assembly of a *)
(* system A x = b on one process with the Dirichlet conditions eliminated  *)
(* cell by cell.                                                           *)
(***************************************************************************)
\* the kernels of the symmetric forms a run is started with
SymKernels == {1, 2, 3}

\* Form::tabulate_tensor of a symmetric bilinear form on space V: the element
\* matrix of cell c, an opaque function symmetric in its two indices
tabulate_symmetric(k, V, c) ==
  [p \in 0 .. (CellDim(V) - 1) |->
    [q \in 0 .. (CellDim(V) - 1) |-> k + c + (p + 1) * (q + 1)]]

\* a variant of the elimination that zeroes the column and leaves the row
EliminateColumnOnly(Ae, be, q, g) ==
  [A |-> [p \in DOMAIN Ae |-> [t \in DOMAIN Ae[p] |-> IF t = q THEN 0 ELSE Ae[p][t]]],
   b |-> [p \in DOMAIN be |-> be[p] - Ae[p][q] * g]]

\* the elimination of local column q prescribed with value g: column * g is
\* subtracted from the element vector, then column and row q are zeroed
EliminateColumn(Ae, be, q, g) ==
  [A |-> [p \in DOMAIN Ae |-> [t \in DOMAIN Ae[p] |-> IF p = q \/ t = q THEN 0 ELSE Ae[p][t]]],
   b |-> [p \in DOMAIN be |-> be[p] - Ae[p][q] * g]]

\* SystemAssembler::apply_bc over the first n local columns of a cell
RECURSIVE apply_bc(_, _, _, _, _)
apply_bc(Ae, be, bvals, global_dofs1, n) ==
  IF n = 0 THEN [A |-> Ae, b |-> be]
  ELSE LET before == apply_bc(Ae, be, bvals, global_dofs1, n - 1)
           q == n - 1
       IN  IF global_dofs1[q] \in DOMAIN bvals
           THEN EliminateColumn(before.A, before.b, q, bvals[global_dofs1[q]])
           ELSE before

\* SystemAssembler::has_bc: the cell has a prescribed dof
has_bc(bvals, dofs) == \E p \in DOMAIN dofs : dofs[p] \in DOMAIN bvals

\* no system assembler has been constructed
SysAbsent ==
  /\ sys = [V |-> 0, k |-> 0, bcs |-> <<>>, boundary_values |-> EmptyMap, pc |-> "none", cellpos |-> 0]
  /\ sys_A = EmptyMap
  /\ sys_b = EmptyMap

(***************************************************************************)
(* Collaborators: the MPI and PETSc libraries.  MPI_Initialized stays true *)
(* after MPI_Finalize; PetscInitialize starts MPI when nobody has, and     *)
(* PetscFinalize then ends it.  calls lists the library calls received     *)
(* from a sub-system manager, in order.                                    *)
(***************************************************************************)
\* the libraries at program start; outside tells whether another party has
\* initialised MPI already
FreshLib(outside) ==
  [outside |-> outside, mpi_initialized |-> outside, mpi_finalized |-> FALSE,
   petsc_initialized |-> FALSE, petsc_began_mpi |-> FALSE, calls |-> <<>>]

\* MPI_Init / MPI_Init_thread / MPI::Init
MPI_Init(L) == [L EXCEPT !.mpi_initialized = TRUE, !.calls = Append(@, "MPI_Init")]

\* MPI_Finalize / MPI::Finalize
MPI_Finalize(L) == [L EXCEPT !.mpi_finalized = TRUE, !.calls = Append(@, "MPI_Finalize")]

\* PetscInitialize
PetscInitialize(L) ==
  [L EXCEPT !.petsc_initialized = TRUE,
            !.petsc_began_mpi = ~L.mpi_initialized,
            !.mpi_initialized = TRUE,
            !.calls = Append(@, "PetscInitialize")]

\* PetscFinalize
PetscFinalize(L) ==
  [L EXCEPT !.petsc_initialized = FALSE,
            !.mpi_finalized = @ \/ L.petsc_began_mpi,
            !.calls = Append(@, "PetscFinalize")]

\* the levels of thread support of MPI, MPI_THREAD_SINGLE to MPI_THREAD_MULTIPLE
ThreadLevels == 0 .. 3

NoManagerCall == [op |-> "none", val |-> 0]

\* no sub-system manager is in use
ManagerAbsent ==
  /\ lib = FreshLib(FALSE)
  /\ ssm = [petsc_initialized |-> FALSE, control_mpi |-> FALSE, alive |-> FALSE]
  /\ mgr_ret = NoManagerCall
  /\ mgr_ncalls = 0

\* the ways a subclass treats the deprecated form(A, b, x): not overridden,
\* overridden without a call of the base version, overridden with a call of
\* it, overridden with a call of it on some invocations only
Overrides == {"none", "silent", "calls_base", "conditional"}

\* NonlinearProblem(): _called(false)
NewProblem(kind) ==
  [kind |-> kind, called |-> FALSE, warnings |-> 0, ncalls |-> 0,
   last |-> [op |-> "none", set |-> FALSE, warned |-> FALSE]]

\* no NonlinearProblem is in use
ProblemAbsent == nlp = NewProblem("none")

\* the assembler and its containers before the first call: both containers
\* are empty, every rank is idle
AssemblerReset ==
  /\ A = [kind |-> "empty", val |-> EmptyMap]
  /\ b = [kind |-> "empty", nblocks |-> 0, val |-> [r \in Procs |-> EmptyMap]]
  /\ call = NoCall
  /\ ncalls = 0
  /\ pc = [r \in Procs |-> "idle"]
  /\ blk = [r \in Procs |-> <<0, 0>>]
  /\ cellpos = [r \in Procs |-> 0]
  /\ offset = [r \in Procs |-> ZeroOffset]
  /\ boundary_values = [r \in Procs |-> <<EmptyMap, EmptyMap>>]
  /\ ins_mode = [r \in Procs |-> [cid \in Containers |-> "none"]]
  /\ n_final = 0
  /\ diag_rows = [r \in Procs |-> {}]
  /\ assembled = {}
  /\ b_vec = [r \in Procs |-> EmptyMap]
  /\ n_reduce = [i \in 0 .. (MaxBlocks - 1) |-> 0]
  /\ bc_done = [r \in Procs |-> {}]
  /\ collectives = [r \in Procs |-> <<>>]

AssemblerInit ==
  /\ mpi_size \in 1 .. MaxProcs
  /\ a \in FormArrays
  /\ l \in {[i \in 0 .. (nl - 1) |-> TRUE] : nl \in 1 .. MaxBlocks}
  /\ world_size \in mpi_size .. MaxProcs
  /\ bcs \in BcLists
  /\ kern \in Kernels
  /\ AssemblerReset

\* a run of the assembler: no multi-point constraint and no system assembler
\* exist
Init == AssemblerInit /\ MPCAbsent /\ SysAbsent /\ ManagerAbsent /\ ProblemAbsent

(***************************************************************************)
(* Assembler::assemble(la::PETScMatrix& A, BlockType block_type)           *)
(***************************************************************************)
\* entry of the call on every rank: allocate an empty matrix, read the
\* matrix type and select the branch
StartAssembleA(block_type) ==
  /\ call.status \in {"none", "done"}
  /\ ncalls < MaxCalls
  /\ LET block_matrix == NRows > 1 \/ NCols > 1
         kind == IF A.kind = "empty" THEN InitMatrixKind(block_type, block_matrix) ELSE A.kind
         val  == IF A.kind # "empty" THEN A.val
                 ELSE IF kind = "single" THEN ZeroMatrix(1, 1) ELSE ZeroMatrix(NRows, NCols)
     IN  /\ A' = [kind |-> kind, val |-> val]
         /\ call' = [op |-> "A", block_type |-> block_type, status |-> "running",
                     branch |-> MatrixBranch(kind, block_matrix),
                     was_empty |-> (A.kind = "empty"), prior_kind |-> A.kind, prior_val |-> A.val,
                     oob |-> FALSE]
  /\ collectives' = [r \in Procs |-> <<>>]
  /\ ncalls' = ncalls + 1
  /\ pc' = [r \in Procs |-> "block"]
  /\ blk' = [r \in Procs |-> <<0, 0>>]
  /\ cellpos' = [r \in Procs |-> 0]
  /\ offset' = [r \in Procs |-> ZeroOffset]
  /\ n_final' = 0
  /\ diag_rows' = [r \in Procs |-> {}]
  /\ assembled' = {}
  /\ UNCHANGED <<config, b, boundary_values, ins_mode, vecvars>>

\* head of the loop over blocks on rank r: leave the loop, skip or reject a
\* null block, or enter assemble(A, a, bcs) and collect the boundary values
\* of both axes
EnterBlock(r) ==
  /\ call.op = "A"
  /\ pc[r] = "block"
  /\ LET i == blk[r][1]
         j == blk[r][2]
     IN  IF i >= NRows
         THEN /\ pc' = [pc EXCEPT ![r] = IF call.branch = "monolithic" THEN "final1" ELSE "final"]
              /\ UNCHANGED <<blk, boundary_values, call, collectives>>
         ELSE IF a[i][j]
         THEN /\ boundary_values' = [boundary_values EXCEPT ![r] =
                   <<AxisBoundaryValues(mpi_size, r, function_space(i, j, 0), bcs),
                     AxisBoundaryValues(mpi_size, r, function_space(i, j, 1), bcs)>>]
              /\ collectives' = [collectives EXCEPT ![r] = @ \o
                   GatherCalls(mpi_size, r, <<function_space(i, j, 0), function_space(i, j, 1)>>,
                               bcs, Len(bcs), mpi_size)]
              /\ pc' = [pc EXCEPT ![r] = "cells"]
              /\ UNCHANGED <<blk, call>>
         ELSE IF NullBlock(call.branch) = "throw"
         THEN /\ pc' = [pc EXCEPT ![r] = "error"]
              /\ call' = [call EXCEPT !.status = "failed"]
              /\ UNCHANGED <<blk, boundary_values, collectives>>
         ELSE /\ blk' = [blk EXCEPT ![r] = NextBlock(i, j, NCols)]
              /\ UNCHANGED <<pc, boundary_values, call, collectives>>
  /\ cellpos' = [cellpos EXCEPT ![r] = 0]
  /\ UNCHANGED <<config, A, b, ncalls, offset, matvars, vecvars>>

\* one iteration of the cell loop of assemble(A, a, bcs) on rank r
CellStep(r) ==
  /\ call.op = "A"
  /\ pc[r] = "cells"
  /\ cellpos[r] < NumCells(mpi_size, r)
  /\ LET i     == blk[r][1]
         j     == blk[r][2]
         c     == NthCell(mpi_size, r, cellpos[r])
         dmap0 == cell_dofs(mpi_size, r, function_space(i, j, 0), c)
         dmap1 == cell_dofs(mpi_size, r, function_space(i, j, 1), c)
         Ae    == ZeroBcRowsCols(tabulate_tensor(kern, i, j, c), dmap0, dmap1,
                                 boundary_values[r][1], boundary_values[r][2])
         view  == BlockView(call.branch, mpi_size, r, i, j, offset[r])
     IN  /\ A' = [A EXCEPT !.val = add_local(A.val, mpi_size, r, view, Ae, dmap0, dmap1)]
         /\ ins_mode' = [ins_mode EXCEPT ![r][ContainerOf(call.branch, i, j)] = "add"]
  /\ cellpos' = [cellpos EXCEPT ![r] = @ + 1]
  /\ UNCHANGED <<config, b, call, ncalls, pc, blk, offset, boundary_values, n_final,
                 diag_rows, assembled, vecvars, collectives>>

\* mat.apply(FLUSH) after the cell loop of a block: collective
Flush ==
  /\ call.op = "A"
  /\ \A r \in Procs : pc[r] = "cells" /\ cellpos[r] = NumCells(mpi_size, r)
  /\ ins_mode' = [r \in Procs |->
       ApplyFlush(ins_mode[r], ContainerOf(call.branch, blk[r][1], blk[r][2]))]
  /\ assembled' = assembled \cup {blk[0]}
  /\ collectives' = [r \in Procs |-> Append(collectives[r], <<"flush", blk[r][1], blk[r][2]>>)]
  /\ pc' = [r \in Procs |-> "diag"]
  /\ UNCHANGED <<config, A, b, call, ncalls, blk, cellpos, offset, boundary_values,
                 n_final, diag_rows, vecvars>>

\* a variant that advances the offsets by the owned size of the index maps
AdvanceOffsetsOwned(off, P, r, i, j, nc) ==
  IF j + 1 < nc
  THEN [off EXCEPT !.col = @ + SizeOwned(P, r, function_space(i, j, 1))]
  ELSE [off EXCEPT !.col = 0, !.row = @ + SizeOwned(P, r, function_space(i, 0, 0))]

\* offset_col and offset_row of the merged branch after block (i, j) of a
\* row of nc blocks: the column offset grows by the ALL size of the trial
\* map; at the end of the row it restarts at 0 and the row offset grows by
\* the ALL size of the test map of the row's first block
AdvanceOffsets(off, P, r, i, j, nc) ==
  IF j + 1 < nc
  THEN [off EXCEPT !.col = @ + SizeAll(P, r, function_space(i, j, 1))]
  ELSE [off EXCEPT !.col = 0, !.row = @ + SizeAll(P, r, function_space(i, 0, 0))]

\* the unit-diagonal pass of a block on rank r, and the end of the loop body
Diagonal(r) ==
  /\ call.op = "A"
  /\ pc[r] = "diag"
  /\ LET i    == blk[r][1]
         j    == blk[r][2]
         V0   == function_space(i, j, 0)
         V1   == function_space(i, j, 1)
         view == BlockView(call.branch, mpi_size, r, i, j, offset[r])
         rows == IF V0 = V1
                 THEN DiagonalRows(call.branch,
                                   DiagBoundaryValues(mpi_size, r, V0, bcs, world_size),
                                   SizeOwned(mpi_size, r, V0))
                 ELSE {}
         cid  == ContainerOf(call.branch, i, j)
         nxt  == NextBlock(i, j, NCols)
     IN  /\ A' = [A EXCEPT !.val = InsertDiagonal(call.branch, A.val, mpi_size, r, view, rows)]
         /\ ins_mode' = [ins_mode EXCEPT ![r][cid] =
              IF rows = {} THEN @ ELSE DiagonalMode(call.branch)]
         /\ diag_rows' = [diag_rows EXCEPT ![r] = @ \cup {<<i, j, d>> : d \in rows}]
         /\ collectives' = [collectives EXCEPT ![r] =
              IF V0 = V1
              THEN @ \o GatherCalls(mpi_size, r, <<V0>>, bcs, Len(bcs), world_size)
              ELSE @]
         /\ IF call.branch = "single"
            THEN /\ pc' = [pc EXCEPT ![r] = "final"]
                 /\ UNCHANGED <<blk, offset>>
            ELSE /\ pc' = [pc EXCEPT ![r] = "block"]
                 /\ blk' = [blk EXCEPT ![r] = nxt]
                 /\ offset' = [offset EXCEPT ![r] =
                      IF call.branch # "monolithic" THEN @
                      ELSE AdvanceOffsets(@, mpi_size, r, i, j, NCols)]
  /\ UNCHANGED <<config, b, call, ncalls, cellpos, boundary_values, n_final, assembled,
                 vecvars>>

\* A.apply(FINAL) at the end of the merged branch: collective
FinalMonolithic ==
  /\ call.op = "A"
  /\ \A r \in Procs : pc[r] = "final1"
  /\ n_final' = n_final + 1
  /\ ins_mode' = [r \in Procs |-> ApplyFinal(ins_mode[r])]
  /\ collectives' = [r \in Procs |-> Append(collectives[r], <<"final">>)]
  /\ pc' = [r \in Procs |-> "final"]
  /\ UNCHANGED <<config, A, b, call, ncalls, blk, cellpos, offset, boundary_values,
                 diag_rows, assembled, vecvars>>

\* A.apply(FINAL) at the end of the call: collective; the call returns
Final ==
  /\ call.op = "A"
  /\ \A r \in Procs : pc[r] = "final"
  /\ n_final' = n_final + 1
  /\ ins_mode' = [r \in Procs |-> ApplyFinal(ins_mode[r])]
  /\ collectives' = [r \in Procs |-> Append(collectives[r], <<"final">>)]
  /\ pc' = [r \in Procs |-> "idle"]
  /\ call' = [call EXCEPT !.status = "done"]
  /\ UNCHANGED <<config, A, b, ncalls, blk, cellpos, offset, boundary_values, diag_rows,
                 assembled, vecvars>>

(***************************************************************************)
(* Collaborator: the ghosted global vector (la::PETScVector).  Each rank   *)
(* holds a local form: slot <<i, k>> is local index k (owned, then ghosts) *)
(* of sub-vector i of a VECNEST, slot <<0, k>> that of a plain vector, and *)
(* slot <<-1, n>> position n of the merged vector, whose local form holds  *)
(* the owned entries of all blocks followed by the ghosts of all blocks.   *)
(***************************************************************************)
RECURSIVE SumOwned(_, _, _)
SumOwned(P, r, n) == IF n = 0 THEN 0 ELSE SumOwned(P, r, n - 1) + SizeOwned(P, r, n - 1)

RECURSIVE SumGhosts(_, _, _)
SumGhosts(P, r, n) == IF n = 0 THEN 0 ELSE SumGhosts(P, r, n - 1) + SizeGhosts(P, r, n - 1)

\* the slot of local index k of block i in the local form of rank r
Slot(kind, P, r, nl, i, k) ==
  IF kind = "nest" THEN <<i, k>>
  ELSE IF kind = "single" THEN <<0, k>>
  ELSE IF k < SizeOwned(P, r, i) THEN <<-1, SumOwned(P, r, i) + k>>
  ELSE <<-1, SumOwned(P, r, nl) + SumGhosts(P, r, i) + (k - SizeOwned(P, r, i))>>

\* the local form init_nest / init_monolithic / init_vector allocate
ZeroVector(kind, P, r, nl) ==
  [key \in {Slot(kind, P, r, nl, ik[1], ik[2]) :
             ik \in UNION {{<<i, k>> : k \in 0 .. (SizeAll(P, r, i) - 1)} :
                           i \in IF kind = "single" THEN {0} ELSE 0 .. (nl - 1)}} |-> 0]

RECURSIVE SumFcn(_, _)
SumFcn(f, n) == IF n = 0 THEN 0 ELSE f[n - 1] + SumFcn(f, n - 1)

\* what the ghost slots of the other ranks hold for global dof g of block i
GhostSum(val, kind, P, r, nl, i, g) ==
  SumFcn([q \in 0 .. (P - 1) |->
           IF q # r /\ g \in DOMAIN DofMaps[P][q][i].g2l
                    /\ GlobalToLocal(P, q, i, g) >= SizeOwned(P, q, i)
           THEN val[q][Slot(kind, P, q, nl, i, GlobalToLocal(P, q, i, g))]
           ELSE 0], P)

\* VecGhostUpdateBegin/End(ADD_VALUES, SCATTER_REVERSE) for the blocks in I:
\* every owned entry receives the sum of the ghost slots that mirror it
VecGhostUpdate(val, kind, P, nl, I) ==
  [r \in 0 .. (P - 1) |->
    LET owned == UNION {{<<i, k>> : k \in 0 .. (SizeOwned(P, r, i) - 1)} : i \in I}
        slots == [ik \in owned |-> Slot(kind, P, r, nl, ik[1], ik[2])]
    IN  [key \in DOMAIN val[r] |->
          IF \E ik \in owned : slots[ik] = key
          THEN LET ik == CHOOSE ik \in owned : slots[ik] = key
               IN  val[r][key]
                   + GhostSum(val, kind, P, r, nl, ik[1], LocalToGlobal(P, r, ik[1], ik[2]))
          ELSE val[r][key]]]

(***************************************************************************)
(* Pure parts of Assembler::assemble(la::PETScVector&, BlockType),         *)
(* assemble(Eigen::Ref<EigenVectorXd>, const Form&) and set_bc.            *)
(***************************************************************************)
\* _l.size()
NForms == Cardinality(DOMAIN l)

\* a variant of the null check that looks at the first linear form only
HasNullFormFirstOnly(forms) == ~forms[0]

\* the loop at the entry of assemble(b) that throws on a null linear form
HasNullForm(forms) == \E i \in DOMAIN forms : ~forms[i]

\* the storage allocated for an empty vector
InitVectorKind(block_type, block_vector) ==
  IF block_type = "nested" THEN "nest"
  ELSE IF block_vector /\ block_type = "monolithic" THEN "mono"
  ELSE "single"

\* std::vector<const Form*> forms(_a.size()) is filled with forms[i] for
\* every i < _l.size(): a write past its end when _l is longer than _a
FormsOutOfRange(nrows, nforms) == nforms > nrows

\* the number of blocks init_nest and init_monolithic lay out: forms has
\* _a.size() entries, of which the first _l.size() hold a linear form
AllocatedBlocks(nrows, nforms) == IF nforms > nrows THEN nrows ELSE nforms

\* forms keeps null pointers when _l is shorter than _a; init_nest and
\* init_monolithic read every entry, init_vector(*_l[0]) reads none
FormsHoldNull(nrows, nforms, kind) == nforms < nrows /\ kind # "single"

\* the branch taken: is_vecnest, else block_vector, else the single form
VectorBranch(kind, block_vector) ==
  IF kind = "nest" THEN "nested"
  ELSE IF block_vector THEN "monolithic"
  ELSE "single"

\* b[dmap[p]] += be[p] for every p, on a dense array
AddCell(arr, dmap, be) ==
  [k \in DOMAIN arr |->
    IF \E p \in DOMAIN dmap : dmap[p] = k
    THEN arr[k] + be[CHOOSE p \in DOMAIN dmap : dmap[p] = k]
    ELSE arr[k]]

\* the same on the local form of sub-vector i (nested) or of the vector
AddCellLocal(val, i, dmap, be) ==
  [key \in DOMAIN val |->
    IF key[1] = i /\ \E p \in DOMAIN dmap : dmap[p] = key[2]
    THEN val[key] + be[CHOOSE p \in DOMAIN dmap : dmap[p] = key[2]]
    ELSE val[key]]

\* a variant of offset0 that also adds the ghost sizes of the preceding blocks
VecOffset0WithGhosts(P, r, i) == SumOwned(P, r, i) + SumGhosts(P, r, i)

\* offset0 and offset1 of block i in the merged branch
VecOffset0(P, r, i) == SumOwned(P, r, i)

VecOffset1(P, r, nl, i) == SumOwned(P, r, nl) + SumGhosts(P, r, i)

\* copy of the dense buffer of block i into the local form of the merged vector
CopyBlock(val, P, r, nl, i, buf) ==
  LET map_size0 == SizeOwned(P, r, i)
      map_size1 == SizeGhosts(P, r, i)
  IN  [key \in DOMAIN val |->
        IF key[2] >= VecOffset0(P, r, i) /\ key[2] < VecOffset0(P, r, i) + map_size0
        THEN buf[key[2] - VecOffset0(P, r, i)]
        ELSE IF key[2] >= VecOffset1(P, r, nl, i) /\ key[2] < VecOffset1(P, r, nl, i) + map_size1
        THEN buf[map_size0 + (key[2] - VecOffset1(P, r, nl, i))]
        ELSE val[key]]

\* set_bc on the array of the given size that starts at slot <<tag, base>>:
\* every boundary value whose index is inside the array is written
set_bc(val, tag, base, size, bv) ==
  [key \in DOMAIN val |->
    IF key[1] = tag /\ (key[2] - base) \in DOMAIN bv /\ key[2] - base < size
    THEN bv[key[2] - base]
    ELSE val[key]]

\* a variant that calls set_bc before the ghost reduction
BlockPhasesSetBcFirst(branch) ==
  IF branch = "monolithic" THEN <<"vcopy">> ELSE <<"vsetbc", "vreduce">>

\* the steps that follow the cell loop of a block inside the loop over
\* blocks: ghost reduction, then set_bc (nested, single); the copy into the
\* local form (merged)
BlockPhases(branch) ==
  IF branch = "monolithic" THEN <<"vcopy">> ELSE <<"vreduce", "vsetbc">>

\* the steps that follow the loop over blocks: in the merged branch the ghost
\* reduction of the whole vector, then the set_bc loop
FinalPhases(branch) ==
  IF branch = "monolithic" THEN <<"vreduce_all", "vsetbc_all">> ELSE <<>>

\* the element of seq that follows ph, "end" after the last one
PhaseAfter(seq, ph) ==
  IF \E k \in 1 .. (Len(seq) - 1) : seq[k] = ph
  THEN seq[(CHOOSE k \in 1 .. (Len(seq) - 1) : seq[k] = ph) + 1]
  ELSE "end"

FirstPhase(seq) == IF Len(seq) = 0 THEN "end" ELSE seq[1]

(***************************************************************************)
(* Assembler::assemble(la::PETScVector& b, BlockType block_type)           *)
(***************************************************************************)
ZeroBuffer(P, r, i) == [k \in 0 .. (SizeAll(P, r, i) - 1) |-> 0]

\* where rank r stands once phase ph of block i is complete: [pc, blk]
VecAdvance(r, i, ph) ==
  LET inblock == IF ph = "vcells" THEN FirstPhase(BlockPhases(call.branch))
                 ELSE PhaseAfter(BlockPhases(call.branch), ph)
      isfinal == \E k \in 1 .. Len(FinalPhases(call.branch)) : FinalPhases(call.branch)[k] = ph
      nblocks == IF call.branch = "single" THEN 1 ELSE NForms
      after   == IF isfinal THEN PhaseAfter(FinalPhases(call.branch), ph)
                 ELSE FirstPhase(FinalPhases(call.branch))
  IN  IF ~isfinal /\ inblock # "end" THEN [pc |-> inblock, blk |-> <<i, 0>>]
      ELSE IF ~isfinal /\ i + 1 < nblocks
      THEN [pc |-> IF NumCells(mpi_size, r) = 0
                   THEN FirstPhase(BlockPhases(call.branch)) ELSE "vcells",
            blk |-> <<i + 1, 0>>]
      ELSE IF after = "end" THEN [pc |-> "idle", blk |-> <<i, 0>>]
      ELSE [pc |-> after, blk |-> <<0, 0>>]

\* entry of the call on every rank: reject null forms, allocate an empty
\* vector, read the vector type and select the branch
StartAssembleB(block_type) ==
  /\ call.status \in {"none", "done"}
  /\ ncalls < MaxCalls
  /\ ncalls' = ncalls + 1
  /\ blk' = [r \in Procs |-> <<0, 0>>]
  /\ cellpos' = [r \in Procs |-> 0]
  /\ offset' = [r \in Procs |-> ZeroOffset]
  /\ n_reduce' = [i \in DOMAIN n_reduce |-> 0]
  /\ bc_done' = [r \in Procs |-> {}]
  /\ IF HasNullForm(l)
     THEN /\ call' = [op |-> "b", block_type |-> block_type, status |-> "failed",
                      branch |-> "none", was_empty |-> (b.kind = "empty"),
                      prior_kind |-> b.kind, prior_val |-> b.val, oob |-> FALSE]
          /\ pc' = [r \in Procs |-> "error"]
          /\ UNCHANGED <<b, b_vec>>
     ELSE LET block_vector == NForms > 1
              kind   == IF b.kind = "empty" THEN InitVectorKind(block_type, block_vector)
                        ELSE b.kind
              nb     == IF b.kind # "empty" THEN b.nblocks
                        ELSE IF kind = "single" THEN 1 ELSE AllocatedBlocks(NRows, NForms)
              val    == IF b.kind # "empty" THEN b.val
                        ELSE [r \in Procs |-> ZeroVector(kind, mpi_size, r, nb)]
              branch == VectorBranch(kind, block_vector)
              oob    == b.kind = "empty" /\ FormsOutOfRange(NRows, NForms)
              \* a write past the end of forms, or a null pointer handed to
              \* the layout constructor, is undefined behaviour: the call
              \* aborts, or goes on with the layout of the forms that forms
              \* holds; what a branch then writes outside the container is lost
              abort  == IF oob \/ (b.kind = "empty" /\ FormsHoldNull(NRows, NForms, kind))
                        THEN BOOLEAN ELSE {FALSE}
          IN  \E crash \in abort :
                IF crash
                THEN /\ call' = [op |-> "b", block_type |-> block_type, status |-> "failed",
                                 branch |-> "none", was_empty |-> TRUE,
                                 prior_kind |-> b.kind, prior_val |-> b.val, oob |-> oob]
                     /\ pc' = [r \in Procs |-> "error"]
                     /\ UNCHANGED <<b, b_vec>>
                ELSE /\ b' = [kind |-> kind, nblocks |-> nb, val |-> val]
                     /\ call' = [op |-> "b", block_type |-> block_type, status |-> "running",
                                 branch |-> branch,
                                 was_empty |-> (b.kind = "empty"), prior_kind |-> b.kind, prior_val |-> b.val,
                                 oob |-> oob]
                     /\ pc' = [r \in Procs |-> IF NumCells(mpi_size, r) = 0
                                               THEN FirstPhase(BlockPhases(branch)) ELSE "vcells"]
                     /\ b_vec' = [r \in Procs |-> ZeroBuffer(mpi_size, r, 0)]
  /\ collectives' = [r \in Procs |-> <<>>]
  /\ UNCHANGED <<config, A, boundary_values, matvars>>

\* one iteration of the cell loop of assemble(b, L) on rank r
VecCellStep(r) ==
  /\ call.op = "b"
  /\ pc[r] = "vcells"
  /\ cellpos[r] < NumCells(mpi_size, r)
  /\ LET i    == blk[r][1]
         c    == NthCell(mpi_size, r, cellpos[r])
         dmap == cell_dofs(mpi_size, r, function_space(i, i, 0), c)
         be   == tabulate_vector(kern, i, c)
     IN  /\ IF call.branch = "monolithic"
            THEN /\ b_vec' = [b_vec EXCEPT ![r] = AddCell(@, dmap, be)]
                 /\ UNCHANGED b
            ELSE /\ b' = [b EXCEPT !.val[r] = AddCellLocal(@, IF call.branch = "single" THEN 0 ELSE i, dmap, be)]
                 /\ UNCHANGED b_vec
         /\ pc' = [pc EXCEPT ![r] =
              IF cellpos[r] + 1 = NumCells(mpi_size, r) THEN VecAdvance(r, i, "vcells").pc ELSE @]
  /\ cellpos' = [cellpos EXCEPT ![r] = @ + 1]
  /\ UNCHANGED <<config, A, call, ncalls, blk, offset, boundary_values, matvars,
                 n_reduce, bc_done, collectives>>

\* merged branch, rank r: copy the dense buffer of a block into the local
\* form and go to the next block
VecCopy(r) ==
  /\ call.op = "b"
  /\ pc[r] = "vcopy"
  /\ LET i   == blk[r][1]
         nxt == VecAdvance(r, i, "vcopy")
     IN  /\ b' = [b EXCEPT !.val[r] = CopyBlock(@, mpi_size, r, NForms, i, b_vec[r])]
         /\ pc' = [pc EXCEPT ![r] = nxt.pc]
         /\ blk' = [blk EXCEPT ![r] = nxt.blk]
         /\ b_vec' = [b_vec EXCEPT ![r] =
              IF nxt.blk[1] # i THEN ZeroBuffer(mpi_size, r, nxt.blk[1]) ELSE @]
         /\ cellpos' = [cellpos EXCEPT ![r] = IF nxt.blk[1] # i THEN 0 ELSE @]
  /\ UNCHANGED <<config, A, call, ncalls, offset, boundary_values, matvars, n_reduce,
                 bc_done, collectives>>

\* the call returns on rank r; it is over when it has returned on every rank
Returned(r, newpc) ==
  IF newpc = "idle" /\ \A q \in Procs \ {r} : pc[q] = "idle" THEN "done" ELSE call.status

\* VecGhostUpdate of sub-vector i (nested) or of the vector (single): collective
VecReduceBlock ==
  /\ call.op = "b"
  /\ \A r \in Procs : pc[r] = "vreduce" /\ blk[r] = blk[0]
  /\ LET i   == blk[0][1]
         nxt == [r \in Procs |-> VecAdvance(r, i, "vreduce")]
     IN  /\ b' = [b EXCEPT !.val = VecGhostUpdate(@, b.kind, mpi_size, b.nblocks,
                                                   {i} \cap (0 .. (b.nblocks - 1)))]
         /\ n_reduce' = [n_reduce EXCEPT ![i] = @ + 1]
         /\ collectives' = [r \in Procs |-> Append(collectives[r], <<"reduce", i>>)]
         /\ pc' = [r \in Procs |-> nxt[r].pc]
         /\ blk' = [r \in Procs |-> nxt[r].blk]
         /\ cellpos' = [r \in Procs |-> IF nxt[r].blk[1] # i THEN 0 ELSE cellpos[r]]
         /\ call' = [call EXCEPT !.status = IF \A r \in Procs : nxt[r].pc = "idle" THEN "done" ELSE @]
  /\ UNCHANGED <<config, A, ncalls, offset, boundary_values, matvars, b_vec, bc_done>>

\* VecGhostUpdate of the merged vector after the loop over blocks: collective
VecReduceAll ==
  /\ call.op = "b"
  /\ \A r \in Procs : pc[r] = "vreduce_all"
  /\ LET nxt == [r \in Procs |-> VecAdvance(r, 0, "vreduce_all")]
     IN  /\ b' = [b EXCEPT !.val = VecGhostUpdate(@, b.kind, mpi_size, b.nblocks,
                                                   0 .. (b.nblocks - 1))]
         /\ n_reduce' = [i \in DOMAIN n_reduce |->
              IF i \in DOMAIN l THEN n_reduce[i] + 1 ELSE n_reduce[i]]
         /\ collectives' = [r \in Procs |-> Append(collectives[r], <<"reduce", -1>>)]
         /\ pc' = [r \in Procs |-> nxt[r].pc]
         /\ blk' = [r \in Procs |-> <<0, 0>>]
         /\ call' = [call EXCEPT !.status = IF \A r \in Procs : nxt[r].pc = "idle" THEN "done" ELSE @]
  /\ UNCHANGED <<config, A, ncalls, cellpos, offset, boundary_values, matvars, b_vec,
                 bc_done>>

\* set_bc for block i on rank r inside the loop over blocks (nested, single)
VecSetBc(r) ==
  /\ call.op = "b"
  /\ pc[r] = "vsetbc"
  /\ LET i    == blk[r][1]
         V    == function_space(i, i, 0)
         bv   == SetBcBoundaryValues(mpi_size, r, V, bcs)
         tag  == IF call.branch = "nested" THEN i ELSE 0
         nxt  == VecAdvance(r, i, "vsetbc")
     IN  /\ b' = [b EXCEPT !.val[r] = set_bc(@, tag, 0, SizeOwned(mpi_size, r, V), bv)]
         /\ bc_done' = [bc_done EXCEPT ![r] = @ \cup {i}]
         /\ collectives' = [collectives EXCEPT ![r] =
              @ \o GatherCalls(mpi_size, r, <<V>>, bcs, Len(bcs), mpi_size)]
         /\ blk' = [blk EXCEPT ![r] = nxt.blk]
         /\ cellpos' = [cellpos EXCEPT ![r] = IF nxt.blk[1] # i THEN 0 ELSE @]
         /\ pc' = [pc EXCEPT ![r] = nxt.pc]
         /\ call' = [call EXCEPT !.status = Returned(r, nxt.pc)]
  /\ UNCHANGED <<config, A, ncalls, offset, boundary_values, matvars, b_vec, n_reduce>>

\* one iteration of the set_bc loop of the merged branch on rank r
VecSetBcAll(r) ==
  /\ call.op = "b"
  /\ pc[r] = "vsetbc_all"
  /\ LET i    == blk[r][1]
         V    == function_space(i, i, 0)
         bv   == SetBcBoundaryValues(mpi_size, r, V, bcs)
         size == SizeOwned(mpi_size, r, V)
         nxt  == IF i + 1 < NForms THEN [pc |-> "vsetbc_all", blk |-> <<i + 1, 0>>]
                 ELSE VecAdvance(r, i, "vsetbc_all")
     IN  /\ b' = [b EXCEPT !.val[r] = set_bc(@, -1, offset[r].vec, size, bv)]
         /\ bc_done' = [bc_done EXCEPT ![r] = @ \cup {i}]
         /\ collectives' = [collectives EXCEPT ![r] =
              @ \o GatherCalls(mpi_size, r, <<V>>, bcs, Len(bcs), mpi_size)]
         /\ offset' = [offset EXCEPT ![r].vec = @ + size]
         /\ blk' = [blk EXCEPT ![r] = nxt.blk]
         /\ pc' = [pc EXCEPT ![r] = nxt.pc]
         /\ call' = [call EXCEPT !.status = Returned(r, nxt.pc)]
  /\ UNCHANGED <<config, A, ncalls, cellpos, boundary_values, matvars, b_vec, n_reduce>>

NextA ==
  \/ \E bt \in BlockTypes : StartAssembleA(bt)
  \/ \E r \in Procs : EnterBlock(r)
  \/ \E r \in Procs : CellStep(r)
  \/ Flush
  \/ \E r \in Procs : Diagonal(r)
  \/ FinalMonolithic
  \/ Final

NextB ==
  \/ \E bt \in BlockTypes : StartAssembleB(bt)
  \/ \E r \in Procs : VecCellStep(r)
  \/ \E r \in Procs : VecCopy(r)
  \/ VecReduceBlock
  \/ VecReduceAll
  \/ \E r \in Procs : VecSetBc(r)
  \/ \E r \in Procs : VecSetBcAll(r)

Next == NextA \/ NextB

Spec == Init /\ [][Next]_vars

\* runs of assemble(b) alone, over linear-form arrays that may hold null
\* entries
InitB ==
  /\ mpi_size \in 1 .. MaxProcs
  /\ a \in FormArrays
  /\ l \in LinearForms
  /\ world_size = mpi_size
  /\ bcs \in BcLists
  /\ kern \in Kernels
  /\ AssemblerReset
  /\ MPCAbsent /\ SysAbsent /\ ManagerAbsent /\ ProblemAbsent

SpecB == InitB /\ [][NextB]_vars

(***************************************************************************)
(* dolfinx::common::SubSystemsManager: free functions                      *)
(* (src/cpp/dolfinx/common/SubSystemsManager.cpp:21-129).                  *)
(***************************************************************************)
\* the test of both init_mpi overloads: MPI_Initialized says no
MpiNotInitialized(L) == ~L.mpi_initialized

\* a variant of the test in finalize_mpi that does not ask MPI_Finalized
FinalizeRequiredIfInitialized(L) == L.mpi_initialized

\* the test of finalize_mpi: initialised and not yet finalised
FinalizeRequired(L) == L.mpi_initialized /\ ~L.mpi_finalized

\* a variant of the query that is true only while MPI is running
MpiInitializedWhileRunning(L) == L.mpi_initialized /\ ~L.mpi_finalized

\* the value of mpi_initialized(): what MPI_Initialized reports
MpiInitializedValue(L) == L.mpi_initialized

\* the value of mpi_finalized(): what MPI_Finalized reports
MpiFinalizedValue(L) == L.mpi_finalized

\* the frame of a call of a free function
ManagerCall(op, val) ==
  /\ mgr_ncalls < MaxLifecycleCalls
  /\ mgr_ncalls' = mgr_ncalls + 1
  /\ mgr_ret' = [op |-> op, val |-> val]
  /\ UNCHANGED <<asmvars, mpcvars, sysvars, nlpvars, ssm>>

\* init_mpi(argc, argv, required_thread_level): -100 when MPI is initialised,
\* else the level MPI_Init_thread provided
init_mpi_args ==
  \E required \in ThreadLevels : \E provided \in ThreadLevels :
    IF MpiNotInitialized(lib)
    THEN lib' = MPI_Init(lib) /\ ManagerCall("init_mpi_args", provided)
    ELSE lib' = lib /\ ManagerCall("init_mpi_args", -100)

\* init_mpi(): calls the other overload unless MPI is initialised
init_mpi ==
  /\ lib' = IF MpiNotInitialized(lib) THEN MPI_Init(lib) ELSE lib
  /\ ManagerCall("init_mpi", 0)

\* finalize_mpi()
finalize_mpi ==
  /\ lib' = IF FinalizeRequired(lib) THEN MPI_Finalize(lib) ELSE lib
  /\ ManagerCall("finalize_mpi", 0)

\* mpi_initialized()
mpi_initialized ==
  /\ lib' = lib
  /\ ManagerCall("mpi_initialized", IF MpiInitializedValue(lib) THEN 1 ELSE 0)

\* mpi_finalized()
mpi_finalized ==
  /\ lib' = lib
  /\ ManagerCall("mpi_finalized", IF MpiFinalizedValue(lib) THEN 1 ELSE 0)

\* the program starts; another party may have initialised MPI
InitMgr ==
  /\ AssemblerInit
  /\ mpi_size = 1 /\ world_size = 1 /\ a = [i \in {0} |-> [j \in {0} |-> TRUE]]
  /\ Len(bcs) = 0 /\ DOMAIN l = {0}
  /\ MPCAbsent /\ SysAbsent /\ ProblemAbsent
  /\ \E outside \in BOOLEAN : lib = FreshLib(outside)
  /\ ssm = [petsc_initialized |-> FALSE, control_mpi |-> FALSE, alive |-> FALSE]
  /\ mgr_ret = NoManagerCall
  /\ mgr_ncalls = 0

NextMgr == init_mpi \/ init_mpi_args \/ finalize_mpi \/ mpi_initialized \/ mpi_finalized

SpecMgr == InitMgr /\ [][NextMgr]_vars

(***************************************************************************)
(* dolfin::SubSystemsManager: the static singleton                         *)
(* (src/dolfin/main/SubSystemsManager.cpp:28-142).                         *)
(***************************************************************************)
\* the frame of a call of a static member function, or of the destructor
SingletonCall(op, val) ==
  /\ ssm.alive
  /\ mgr_ncalls < MaxLifecycleCalls
  /\ mgr_ncalls' = mgr_ncalls + 1
  /\ mgr_ret' = [op |-> op, val |-> val]
  /\ UNCHANGED <<asmvars, mpcvars, sysvars, nlpvars>>

\* initMPI(): initialise MPI and take responsibility, unless it is initialised
initMPI ==
  /\ SingletonCall("initMPI", 0)
  /\ IF lib.mpi_initialized
     THEN UNCHANGED <<lib, ssm>>
     ELSE /\ lib' = MPI_Init(lib)
          /\ ssm' = [ssm EXCEPT !.control_mpi = TRUE]

\* the body of initPETSc(argc, argv, cmd_line_args) past the test of
\* petsc_initialized
StartPETSc ==
  LET mpi_init_status == lib.mpi_initialized
      started == PetscInitialize(lib)
  IN /\ lib' = started
     /\ ssm' = [ssm EXCEPT !.petsc_initialized = TRUE,
                           !.control_mpi = IF started.mpi_initialized /\ ~mpi_init_status
                                           THEN FALSE ELSE @]

\* initPETSc(): without arguments
initPETSc ==
  /\ SingletonCall("initPETSc", 0)
  /\ IF ssm.petsc_initialized THEN UNCHANGED <<lib, ssm>> ELSE StartPETSc

\* initPETSc(argc, argv, cmd_line_args)
initPETSc_args ==
  \E cmd_line_args \in BOOLEAN :
    /\ SingletonCall("initPETSc_args", IF cmd_line_args THEN 1 ELSE 0)
    /\ IF ssm.petsc_initialized THEN UNCHANGED <<lib, ssm>> ELSE StartPETSc

\* the test of finalizePETSc()
FinalizePETScRequired(m) == m.petsc_initialized

\* finalizePETSc() applied to the libraries
finalizePETSc(L, m) == IF FinalizePETScRequired(m) THEN PetscFinalize(L) ELSE L

\* a variant of the test of finalizeMPI() that ignores control_mpi
FinalizeMPIRequiredIgnoringControl(L, m) == L.mpi_initialized

\* the test of finalizeMPI()
FinalizeMPIRequired(L, m) == L.mpi_initialized /\ m.control_mpi

\* finalizeMPI() applied to the libraries
finalizeMPI(L, m) == IF FinalizeMPIRequired(L, m) THEN MPI_Finalize(L) ELSE L

\* ~SubSystemsManager(): the static object is destroyed at program exit
Destructor ==
  /\ SingletonCall("destructor", 0)
  /\ lib' = finalizeMPI(finalizePETSc(lib, ssm), ssm)
  /\ ssm' = [ssm EXCEPT !.alive = FALSE]

\* the static object has been constructed; another party may have
\* initialised MPI
InitSingleton ==
  /\ AssemblerInit
  /\ mpi_size = 1 /\ world_size = 1 /\ a = [i \in {0} |-> [j \in {0} |-> TRUE]]
  /\ Len(bcs) = 0 /\ DOMAIN l = {0}
  /\ MPCAbsent /\ SysAbsent /\ ProblemAbsent
  /\ \E outside \in BOOLEAN : lib = FreshLib(outside)
  /\ ssm = [petsc_initialized |-> FALSE, control_mpi |-> FALSE, alive |-> TRUE]
  /\ mgr_ret = NoManagerCall
  /\ mgr_ncalls = 0

NextSingleton == initMPI \/ initPETSc \/ initPETSc_args \/ Destructor

SpecSingleton == InitSingleton /\ [][NextSingleton]_vars

(***************************************************************************)
(* dolfin::NonlinearProblem: the deprecation mechanism of form             *)
(* (src/dolfin/nls/NonlinearProblem.h:19-79).                              *)
(***************************************************************************)
\* NonlinearProblem::form(A, b, x), the base version: sets the flag
BaseForm(p) == [p EXCEPT !.called = TRUE]

\* the virtual call form(A, b, x): the base version, or the override of the
\* subclass, which calls the base version (calls_base) or does not
VirtualForm(p, calls_base) ==
  IF p.kind = "none" \/ calls_base THEN BaseForm(p) ELSE p

\* what the override of a subclass may do on one invocation
OverrideChoices(kind) ==
  CASE kind = "none" -> {TRUE}
    [] kind = "silent" -> {FALSE}
    [] kind = "calls_base" -> {TRUE}
    [] kind = "conditional" -> BOOLEAN

\* a call of form(A, b, x) from outside, dispatched virtually
form3 ==
  /\ nlp.ncalls < MaxFormCalls
  /\ \E calls_base \in OverrideChoices(nlp.kind) :
       nlp' = [VirtualForm(nlp, calls_base) EXCEPT
                 !.ncalls = @ + 1,
                 !.last = [op |-> "form3", set |-> (nlp.kind = "none" \/ calls_base),
                           warned |-> FALSE]]
  /\ UNCHANGED <<asmvars, mpcvars, sysvars, libvars>>

\* a qualified call NonlinearProblem::form(A, b, x) of the base version
base_form3 ==
  /\ nlp.ncalls < MaxFormCalls
  /\ nlp' = [BaseForm(nlp) EXCEPT
               !.ncalls = @ + 1,
               !.last = [op |-> "base_form3", set |-> TRUE, warned |-> FALSE]]
  /\ UNCHANGED <<asmvars, mpcvars, sysvars, libvars>>

\* the default form(A, P, b, x): form(A, b, x); if (!_called) deprecation(...);
\* _called = false
form4 ==
  /\ nlp.ncalls < MaxFormCalls
  /\ \E calls_base \in OverrideChoices(nlp.kind) :
       LET q == VirtualForm(nlp, calls_base)
           warn == ~q.called
       IN nlp' = [q EXCEPT
                    !.called = FALSE,
                    !.warnings = IF warn THEN @ + 1 ELSE @,
                    !.ncalls = @ + 1,
                    !.last = [op |-> "form4", set |-> (nlp.kind = "none" \/ calls_base),
                              warned |-> warn]]
  /\ UNCHANGED <<asmvars, mpcvars, sysvars, libvars>>

\* a problem of any subclass has been constructed
InitProblem ==
  /\ AssemblerInit
  /\ mpi_size = 1 /\ world_size = 1 /\ a = [i \in {0} |-> [j \in {0} |-> TRUE]]
  /\ Len(bcs) = 0 /\ DOMAIN l = {0}
  /\ MPCAbsent /\ SysAbsent /\ ManagerAbsent
  /\ \E kind \in Overrides : nlp = NewProblem(kind)

NextProblem == form3 \/ base_form3 \/ form4

SpecProblem == InitProblem /\ [][NextProblem]_vars

(***************************************************************************)
(* The member functions of MultiPointConstraint.                           *)
(***************************************************************************)
\* MultiPointConstraint::MultiPointConstraint: the members are initialised
\* and cell_classification is called, its result dropped
InitMPC ==
  /\ AssemblerInit
  /\ world_size = mpi_size /\ a = [i \in {0} |-> [j \in {0} |-> TRUE]]
  /\ Len(bcs) = 0 /\ DOMAIN l = {0}
  /\ \E r \in Procs : \E V \in Fields : \E slaves \in SlaveLists :
       \E counts \in MasterCounts(Len(slaves)) :
         mpc = Classified(NewMPC(mpi_size, r, V, slaves, counts))
  /\ mpc_ret = NoReturn
  /\ mpc_ncalls = 1
  /\ SysAbsent /\ ManagerAbsent /\ ProblemAbsent

\* MultiPointConstraint::cell_classification()
cell_classification ==
  /\ mpc_ncalls <= MaxCalls
  /\ mpc' = Classified(mpc)
  /\ mpc_ret' = [op |-> "cell_classification",
                 val |-> <<mpc'.slave_cells, mpc'.normal_cells>>]
  /\ mpc_ncalls' = mpc_ncalls + 1
  /\ UNCHANGED <<asmvars, sysvars, libvars, nlpvars>>

\* MultiPointConstraint::cell_to_slave_mapping()
cell_to_slave_mapping ==
  /\ mpc_ret' = [op |-> "cell_to_slave_mapping",
                 val |-> <<mpc.cell_to_slave, mpc.offsets_cell_to_slave>>]
  /\ UNCHANGED <<asmvars, sysvars, libvars, nlpvars, mpc, mpc_ncalls>>

\* MultiPointConstraint::slave_cells()
slave_cells ==
  /\ mpc_ret' = [op |-> "slave_cells", val |-> mpc.slave_cells]
  /\ UNCHANGED <<asmvars, sysvars, libvars, nlpvars, mpc, mpc_ncalls>>

\* MultiPointConstraint::masters(i)
masters ==
  /\ \E i \in MasterIndices : \E out \in RangeOutcomes(mpc.masters, mpc.offsets, i) :
       mpc_ret' = [op |-> "masters", i |-> i, status |-> out.status, val |-> out.val]
  /\ UNCHANGED <<asmvars, sysvars, libvars, nlpvars, mpc, mpc_ncalls>>

\* MultiPointConstraint::coefficients(i)
coefficients ==
  /\ \E i \in MasterIndices : \E out \in RangeOutcomes(mpc.coefficients, mpc.offsets, i) :
       mpc_ret' = [op |-> "coefficients", i |-> i, status |-> out.status, val |-> out.val]
  /\ UNCHANGED <<asmvars, sysvars, libvars, nlpvars, mpc, mpc_ncalls>>

NextMPC ==
  cell_classification \/ cell_to_slave_mapping \/ slave_cells \/ masters \/ coefficients

SpecMPC == InitMPC /\ [][NextMPC]_vars

(***************************************************************************)
(* The member functions of SystemAssembler.                                *)
(***************************************************************************)
\* SystemAssembler::SystemAssembler(a, L, bcs): a and L are forms on one
\* space V; A and b are zero
InitSys ==
  /\ AssemblerInit
  /\ mpi_size = 1 /\ world_size = 1 /\ a = [i \in {0} |-> [j \in {0} |-> TRUE]]
  /\ Len(bcs) = 0 /\ DOMAIN l = {0}
  /\ MPCAbsent /\ ManagerAbsent /\ ProblemAbsent
  /\ \E V \in Fields : \E k \in SymKernels : \E list \in BcLists :
       /\ sys = [V |-> V, k |-> k, bcs |-> list, boundary_values |-> EmptyMap,
                 pc |-> "idle", cellpos |-> 0]
       /\ sys_A = [key \in (0 .. (SizeAll(1, 0, V) - 1)) \X (0 .. (SizeAll(1, 0, V) - 1)) |-> 0]
       /\ sys_b = [d \in 0 .. (SizeAll(1, 0, V) - 1) |-> 0]

\* SystemAssembler::assemble(A, b): the boundary values are collected
SysStart ==
  /\ sys.pc = "idle"
  /\ sys' = [sys EXCEPT !.pc = "cells",
                         !.boundary_values = CollectBcs(1, 0, sys.V, sys.bcs, Len(sys.bcs), 1)]
  /\ UNCHANGED <<asmvars, mpcvars, libvars, nlpvars, sys_A, sys_b>>

\* SystemAssembler::cell_wise_assembly: one iteration of the cell loop
SysCellStep ==
  /\ sys.pc = "cells"
  /\ sys.cellpos < NumCells(1, 0)
  /\ LET c    == NthCell(1, 0, sys.cellpos)
         dofs == cell_dofs(1, 0, sys.V, c)
         Ae   == tabulate_symmetric(sys.k, sys.V, c)
         be   == tabulate_vector(sys.k, sys.V, c)
         loc  == IF has_bc(sys.boundary_values, dofs)
                 THEN apply_bc(Ae, be, sys.boundary_values, dofs, CellDim(sys.V))
                 ELSE [A |-> Ae, b |-> be]
     IN  /\ sys_A' = [key \in DOMAIN sys_A |->
              IF \E p \in DOMAIN dofs, q \in DOMAIN dofs : <<dofs[p], dofs[q]>> = key
              THEN LET pq == CHOOSE pq \in (DOMAIN dofs) \X (DOMAIN dofs) :
                               <<dofs[pq[1]], dofs[pq[2]]>> = key
                   IN  sys_A[key] + loc.A[pq[1]][pq[2]]
              ELSE sys_A[key]]
         /\ sys_b' = [d \in DOMAIN sys_b |->
              IF \E p \in DOMAIN dofs : dofs[p] = d
              THEN sys_b[d] + loc.b[CHOOSE p \in DOMAIN dofs : dofs[p] = d]
              ELSE sys_b[d]]
  /\ sys' = [sys EXCEPT !.cellpos = @ + 1]
  /\ UNCHANGED <<asmvars, mpcvars, libvars, nlpvars>>

\* the end of assemble(A, b): the containers are finalised
SysFinal ==
  /\ sys.pc = "cells"
  /\ sys.cellpos = NumCells(1, 0)
  /\ sys' = [sys EXCEPT !.pc = "done"]
  /\ UNCHANGED <<asmvars, mpcvars, libvars, nlpvars, sys_A, sys_b>>

NextSys == SysStart \/ SysCellStep \/ SysFinal

SpecSys == InitSys /\ [][NextSys]_vars

(***************************************************************************)
(* The single branch of assemble(A) applied to one form over the mixed     *)
(* space of the fields 0 .. n - 1.  The mixed space numbers its dofs field *)
(* by field, as the merged matrix does; a condition on a field is a        *)
(* condition on a sub-space of the mixed space.                            *)
(***************************************************************************)
\* dofs per cell of the mixed space of the first n fields
RECURSIVE MixedCellDim(_)
MixedCellDim(n) == IF n = 0 THEN 0 ELSE MixedCellDim(n - 1) + CellDim(n - 1)

\* <<field, position in the field's cell dofs>> of position p of a mixed cell
MixedSlot(n, p) ==
  LET f == CHOOSE f \in 0 .. (n - 1) : MixedCellDim(f) <= p /\ p < MixedCellDim(f + 1)
  IN  <<f, p - MixedCellDim(f)>>

\* GenericDofMap::cell_dofs of the mixed space
MixedCellDofs(P, r, n, c) ==
  [p \in 0 .. (MixedCellDim(n) - 1) |->
    LET s == MixedSlot(n, p)
    IN  SumAll(P, r, s[1]) + cell_dofs(P, r, s[1], c)[s[2]]]

\* Form::tabulate_tensor of the mixed form: the element matrices of the
\* blocks side by side
MixedTensor(k, nr, nc, c) ==
  [p \in 0 .. (MixedCellDim(nr) - 1) |->
    [q \in 0 .. (MixedCellDim(nc) - 1) |->
      LET s == MixedSlot(nr, p)
          t == MixedSlot(nc, q)
      IN  tabulate_tensor(k, s[1], t[1], c)[s[2]][t[2]]]]

\* the DirichletBC::Map the loop over bcs fills for the mixed space: the
\* entries of every field's conditions at the field's offset
MixedBoundaryValues(P, r, n, list, world) ==
  LET bv(f) == CollectBcs(P, r, f, list, Len(list), world)
      field(d) == CHOOSE f \in 0 .. (n - 1) : SumAll(P, r, f) <= d /\ d < SumAll(P, r, f + 1)
  IN  [d \in UNION {{SumAll(P, r, f) + e : e \in DOMAIN bv(f)} : f \in 0 .. (n - 1)} |->
        bv(field(d))[d - SumAll(P, r, field(d))]]

\* the matrix of the mixed form itself: no index sets, no offsets
MixedView(P, r, nr, nc) ==
  [kind |-> "local", i |-> 0, j |-> 0, off0 |-> 0, off1 |-> 0,
   n0 |-> SumAll(P, r, nr), n1 |-> SumAll(P, r, nc), nr |-> nr, nc |-> nc]

\* the cell loop of assemble(A, a, bcs) over the first n cells of the rank
RECURSIVE SingleCells(_, _, _, _, _, _, _, _)
SingleCells(val, P, r, k, nr, nc, list, n) ==
  IF n = 0 THEN val
  ELSE LET c     == NthCell(P, r, n - 1)
           dmap0 == MixedCellDofs(P, r, nr, c)
           dmap1 == MixedCellDofs(P, r, nc, c)
           Ae    == ZeroBcRowsCols(MixedTensor(k, nr, nc, c), dmap0, dmap1,
                                   MixedBoundaryValues(P, r, nr, list, P),
                                   MixedBoundaryValues(P, r, nc, list, P))
       IN  add_local(SingleCells(val, P, r, k, nr, nc, list, n - 1), P, r,
                     MixedView(P, r, nr, nc), Ae, dmap0, dmap1)

\* the single branch: the cell loop, then the unit diagonal when the test
\* space is the trial space
SingleMixed(val, P, r, k, nr, nc, list, world) ==
  LET cells == SingleCells(val, P, r, k, nr, nc, list, NumCells(P, r))
  IN  IF nr = nc
      THEN InsertDiagonal("single", cells, P, r, MixedView(P, r, nr, nc),
                          DiagonalRows("single", MixedBoundaryValues(P, r, nr, list, world),
                                       SumOwned(P, r, nr)))
      ELSE cells

(***************************************************************************)
(* Vocabulary of the properties.                                           *)
(***************************************************************************)
\* global dof g of space V is prescribed by some Dirichlet condition
Prescribed(V, g) ==
  \E k \in 1 .. Len(bcs) : bcs[k].space = V /\ g \in DOMAIN bcs[k].vals

\* the value the last condition of the list prescribes for it
PrescribedValue(V, g) ==
  LET K == {k \in 1 .. Len(bcs) : bcs[k].space = V /\ g \in DOMAIN bcs[k].vals}
  IN  bcs[CHOOSE k \in K : \A m \in K : m <= k].vals[g]

\* the contribution of cell c to entry g of the vector of block i
CellContribution(i, g, c) ==
  IF \E p \in 0 .. (CellDim(i) - 1) : CellGlobalDofs(i, c)[p] = g
  THEN tabulate_vector(kern, i, c)[CHOOSE p \in 0 .. (CellDim(i) - 1) : CellGlobalDofs(i, c)[p] = g]
  ELSE 0

\* the sum of the element-vector contributions of every cell of the mesh
CellSum(i, g) == SumFcn([c \in Cells |-> CellContribution(i, g, c)], NCells)

HasNullBlock == \E i \in DOMAIN a : \E j \in DOMAIN a[i] : ~a[i][j]

NonNullBlocks == {ij \in (DOMAIN a) \X (DOMAIN a[0]) : a[ij[1]][ij[2]]}

\* block rows that have a diagonal block (test space = trial space)
DiagonalFields == {i \in DOMAIN a : i \in DOMAIN a[0]}

MatrixDone == call.op = "A" /\ call.status = "done"

VectorDone == call.op = "b" /\ call.status = "done"

\* the storage kind a requested block type stands for
RequestedKind(block_type, multi) ==
  CASE block_type = "nested" -> "nest"
    [] block_type = "monolithic" /\ multi -> "mono"
    [] OTHER -> "single"

MultiBlock == IF call.op = "A" THEN NRows > 1 \/ NCols > 1 ELSE NForms > 1

ContainerKind == IF call.op = "A" THEN A.kind ELSE b.kind

(***************************************************************************)
(* C1: after assemble(A), row d of A is the identity row for every         *)
(* prescribed dof d of a space that has a diagonal block, in every         *)
(* topology.                                                               *)
(***************************************************************************)
C1_IdentityRows ==
  MatrixDone =>
    \A key \in DOMAIN A.val :
      (key[1] \in DiagonalFields /\ Prescribed(key[1], key[2])) =>
        A.val[key] = IF key[3] = key[1] /\ key[4] = key[2] THEN 1 ELSE 0

(***************************************************************************)
(* C2: in the cell loop of assemble(A, a, bcs) the element matrix added to *)
(* the global matrix is the kernel's, with every row of a test-space       *)
(* boundary dof and every column of a trial-space boundary dof zeroed, and *)
(* the insertion is additive.                                              *)
(***************************************************************************)
C2_Expected(r, key) ==
  LET i  == blk[r][1]
      j  == blk[r][2]
      c  == NthCell(mpi_size, r, cellpos[r])
      K  == tabulate_tensor(kern, i, j, c)
      PQ == {pq \in (0 .. (CellDim(i) - 1)) \X (0 .. (CellDim(j) - 1)) :
               key = <<i, CellGlobalDofs(i, c)[pq[1]], j, CellGlobalDofs(j, c)[pq[2]]>>}
  IN  IF PQ = {} THEN 0
      ELSE LET pq == CHOOSE pq \in PQ : TRUE
           IN  IF cell_dofs(mpi_size, r, i, c)[pq[1]] \in DOMAIN boundary_values[r][1]
                  \/ cell_dofs(mpi_size, r, j, c)[pq[2]] \in DOMAIN boundary_values[r][2]
               THEN 0
               ELSE K[pq[1]][pq[2]]

C2_CellInsertion ==
  [][\A r \in Procs :
       (call.op = "A" /\ pc[r] = "cells" /\ cellpos'[r] = cellpos[r] + 1) =>
         \A key \in DOMAIN A.val : A'.val[key] = A.val[key] + C2_Expected(r, key)]_vars

\* a cell with both a boundary dof and a free dof has been added
C2_Witness ==
  /\ call.op = "A" /\ call.branch = "single"
  /\ \E r \in Procs :
       /\ pc[r] = "cells" /\ cellpos[r] = 1
       /\ LET dmap == cell_dofs(mpi_size, r, 0, NthCell(mpi_size, r, 0))
          IN  /\ \E p \in DOMAIN dmap : dmap[p] \in DOMAIN boundary_values[r][1]
              /\ \E p \in DOMAIN dmap : dmap[p] \notin DOMAIN boundary_values[r][1]
       /\ \E key \in DOMAIN A.val : A.val[key] > 0

(***************************************************************************)
(* C3: after the cell iteration of a block whose row space equals its      *)
(* column space, a rank inserts a unit diagonal at exactly the boundary    *)
(* dofs it owns, in every branch.                                          *)
(***************************************************************************)
C3_OwnedDiagonalOnly ==
  MatrixDone =>
    \A r \in Procs :
      diag_rows[r] =
        UNION {{<<i, i, d>> : d \in {d \in 0 .. (SizeOwned(mpi_size, r, i) - 1) :
                                      Prescribed(i, LocalToGlobal(mpi_size, r, i, d))}} :
               i \in DiagonalFields}

(***************************************************************************)
(* C4: after assemble(b) every owned entry of a prescribed dof holds the   *)
(* prescribed value and every other owned entry holds the sum of the       *)
(* element-vector contributions of all cells that touch it (b laid out for *)
(* the linear forms of _l).                                                *)
(***************************************************************************)
C4_VectorEntries ==
  (VectorDone /\ b.nblocks = NForms) =>
    \A r \in Procs : \A i \in DOMAIN l : \A k \in 0 .. (SizeOwned(mpi_size, r, i) - 1) :
      LET g == LocalToGlobal(mpi_size, r, i, k)
      IN  b.val[r][Slot(b.kind, mpi_size, r, NForms, i, k)] =
            IF Prescribed(i, g) THEN PrescribedValue(i, g) ELSE CellSum(i, g)

C6_MismatchIsFatal ==
  (call.status # "none" /\ ~call.was_empty
     /\ call.prior_kind # RequestedKind(call.block_type, MultiBlock)) =>
    call.status = "failed"

(***************************************************************************)
(* C7: an empty container is allocated as nested storage iff nested is     *)
(* requested, as merged storage iff there is more than one block and       *)
(* monolithic is requested, and as the single-block storage of form [0][0] *)
(* otherwise.                                                              *)
(***************************************************************************)
C7_AllocatedKind ==
  (call.status \in {"running", "done"} /\ call.was_empty) =>
    /\ ContainerKind = "nest" <=> call.block_type = "nested"
    /\ ContainerKind = "mono" <=> (MultiBlock /\ call.block_type = "monolithic")
    /\ ContainerKind = "single" <=>
         (call.block_type # "nested" /\ ~(MultiBlock /\ call.block_type = "monolithic"))
    /\ (call.op = "A" /\ ContainerKind = "single") => DOMAIN A.val = BlockKeys(0, 0)
    /\ (call.op = "b" /\ ContainerKind = "single") =>
         \A r \in Procs : DOMAIN b.val[r] = {<<0, k>> : k \in 0 .. (SizeAll(mpi_size, r, 0) - 1)}

\* a 1 x 1 form array assembled with monolithic requested into an empty matrix
C7_Witness ==
  /\ call.op = "A" /\ call.status = "done" /\ call.was_empty
  /\ call.block_type = "monolithic" /\ NRows = 1 /\ NCols = 1
  /\ A.kind = "single"

(***************************************************************************)
(* C8: a successful assemble(A) performs the FINAL synchronisation of A    *)
(* exactly once.                                                           *)
(***************************************************************************)
C8_FinalOnce == MatrixDone => n_final = 1

(***************************************************************************)
(* C9: on one (sub-)container no set-style insertion follows an add-style  *)
(* insertion, and no add-style insertion follows a set-style insertion,    *)
(* without a flush or final synchronisation in between.                    *)
(***************************************************************************)
C9_NoMixedInsertion ==
  [][\A r \in Procs : \A cid \in Containers :
       /\ ~(ins_mode[r][cid] = "add" /\ ins_mode'[r][cid] = "set")
       /\ ~(ins_mode[r][cid] = "set" /\ ins_mode'[r][cid] = "add")]_vars

\* a unit diagonal has been set after the element matrices were added
C9_Witness ==
  \E r \in Procs : \E cid \in Containers :
    ins_mode[r][cid] = "set" /\ cellpos[r] > 0 /\ diag_rows[r] # {}

(***************************************************************************)
(* C10: the ghost reduction of a block completes before set_bc overwrites  *)
(* a boundary entry of that block, and no ghost reduction of the block     *)
(* follows the overwrite.                                                  *)
(***************************************************************************)
C10_ReduceBeforeSetBc ==
  [][call.op = "b" =>
       \A i \in DOMAIN l :
         /\ n_reduce'[i] > n_reduce[i] => \A r \in Procs : i \notin bc_done[r]
         /\ \A r \in Procs : (i \in bc_done'[r] /\ i \notin bc_done[r]) => n_reduce[i] > 0]_vars

\* set_bc has written a prescribed entry of a block reduced across two ranks
C10_Witness ==
  /\ call.op = "b" /\ mpi_size > 1
  /\ \E r \in Procs : \E i \in DOMAIN l :
       /\ i \in bc_done[r] /\ n_reduce[i] = 1
       /\ \E k \in 0 .. (SizeOwned(mpi_size, r, i) - 1) :
            Prescribed(i, LocalToGlobal(mpi_size, r, i, k))

\* s is an initial part of t
IsPrefix(s, t) == Len(s) <= Len(t) /\ SubSeq(t, 1, Len(s)) = s

C12_NullErrorBeforeCells ==
  (call.op = "A" /\ call.status = "failed") =>
    /\ assembled = {}
    /\ \A key \in DOMAIN A.val : A.val[key] = 0
    /\ \A r \in Procs : \A n \in DOMAIN collectives[r] : collectives[r][n][1] # "flush"

\* the rows of the bilinear array differ in length
Ragged == \E i \in DOMAIN a : DOMAIN a[i] # DOMAIN a[0]

\* the block arrays break the shape the assembler relies on
Malformed == Ragged \/ NRows # NForms

(***************************************************************************)
(* C13: a malformed block array (ragged rows, or a row count different     *)
(* from the number of linear forms) makes assemble(A) and assemble(b) end  *)
(* in a fatal error before any cell is visited, with no out-of-range       *)
(* access of the form arrays.                                              *)
(***************************************************************************)
C13_MalformedRejected ==
  (Malformed /\ call.status # "none") =>
    /\ call.status = "failed"
    /\ ~call.oob
    /\ \A r \in Procs : cellpos[r] = 0

\* the entries of a sequence
Range(s) == {s[x] : x \in DOMAIN s}

\* the cells of the rank the constraint lives on
MPCCells == Range(MeshCells[mpc.P][mpc.rank])

\* the slaves of the constraint that occur in the dof list of cell c
SlavesOfCell(c) ==
  {mpc.slaves[n] : n \in DOMAIN mpc.slaves} \cap Range(cell_dofs(mpc.P, mpc.rank, mpc.V, c))

\* the step is a call of cell_classification on the constructed object
IsSecondCall == mpc_ncalls >= 1 /\ mpc_ncalls' = mpc_ncalls + 1

(***************************************************************************)
(* C14: a call of cell_classification on the constructed object returns    *)
(* the slave cells and normal cells the constructor's call computed and    *)
(* leaves the four arrays of the object as they were.                      *)
(***************************************************************************)
C14_ClassificationCached ==
  [][IsSecondCall =>
       /\ mpc_ret'.val = <<mpc.slave_cells, mpc.normal_cells>>
       /\ mpc' = mpc]_vars

(***************************************************************************)
(* C15: slave_cells and normal_cells are disjoint, every cell of the rank  *)
(* occurs exactly once in the two together, and a cell is a slave cell     *)
(* exactly when one of its dofs is a slave.                                *)
(***************************************************************************)
C15_Partition ==
  mpc_ncalls >= 1 =>
    /\ Range(mpc.slave_cells) \cap Range(mpc.normal_cells) = {}
    /\ \A c \in MPCCells :
         Cardinality({x \in DOMAIN mpc.slave_cells : mpc.slave_cells[x] = c})
           + Cardinality({x \in DOMAIN mpc.normal_cells : mpc.normal_cells[x] = c}) = 1
    /\ \A c \in MPCCells : c \in Range(mpc.slave_cells) <=> SlavesOfCell(c) # {}

(***************************************************************************)
(* C16: the pair returned by cell_to_slave_mapping is well formed: the     *)
(* offsets have one entry more than there are slave cells, start at 0, do  *)
(* not decrease and end at the length of the flat array, and the segment   *)
(* of the k-th slave cell is non-empty and holds the slaves of that cell.  *)
(***************************************************************************)
C16_WellFormedCSR ==
  mpc_ret.op = "cell_to_slave_mapping" =>
    LET flat == mpc_ret.val[1]
        offs == mpc_ret.val[2]
    IN  /\ Len(offs) = Len(mpc.slave_cells) + 1
        /\ offs[1] = 0
        /\ \A x \in 1 .. (Len(offs) - 1) : offs[x] <= offs[x + 1]
        /\ offs[Len(offs)] = Len(flat)
        /\ \A k \in 1 .. Len(mpc.slave_cells) :
             /\ offs[k] < offs[k + 1]
             /\ {flat[x] : x \in (offs[k] + 1) .. offs[k + 1]} = SlavesOfCell(mpc.slave_cells[k])
             /\ offs[k + 1] - offs[k] = Cardinality(SlavesOfCell(mpc.slave_cells[k]))

\* one process has assembled a square array of forms into an empty matrix
\* in the merged branch
MonolithicOnOneProcess ==
  /\ MatrixDone /\ call.branch = "monolithic" /\ call.was_empty
  /\ mpi_size = 1 /\ NRows = NCols

C18_SymmetricSystem ==
  \A key \in DOMAIN sys_A : sys_A[key] = sys_A[<<key[2], key[1]>>]

\* a finished assembly on the space with two dofs per cell, in which a cell
\* with a prescribed and a free dof was eliminated and a coupling is left
C18_Witness ==
  /\ sys.pc = "done" /\ CellDim(sys.V) = 2
  /\ \E c \in Cells :
       /\ has_bc(sys.boundary_values, cell_dofs(1, 0, sys.V, c))
       /\ \E p \in 0 .. 1 : cell_dofs(1, 0, sys.V, c)[p] \notin DOMAIN sys.boundary_values
  /\ \E key \in DOMAIN sys_A : key[1] # key[2] /\ sys_A[key] # 0

\* the sum of the ALL sizes of the index maps of the first n spaces of a list
RECURSIVE PrefixAll(_, _, _, _)
PrefixAll(P, r, spaces, n) ==
  IF n = 0 THEN 0 ELSE PrefixAll(P, r, spaces, n - 1) + SizeAll(P, r, spaces[n])

\* the test spaces of the block rows and the trial spaces of row i, in order
TestSpaces == [x \in 1 .. NRows |-> function_space(x - 1, 0, 0)]

TrialSpaces(i) == [x \in 1 .. NCols |-> function_space(i, x - 1, 1)]

\* rank r is working on a block of the merged branch
InMonolithicBlock(r) ==
  call.op = "A" /\ call.branch = "monolithic" /\ pc[r] \in {"cells", "diag"}

(***************************************************************************)
(* C19: in the merged matrix branch the row offset in use for block row i  *)
(* is the sum of the ALL sizes of the test maps of the rows before i, and  *)
(* the column offset in use for block (i, j) is the sum of the ALL sizes   *)
(* of the trial maps of the columns before j; so the index range of a row  *)
(* (column) starts where the range of the row (column) before it ends.     *)
(***************************************************************************)
C19_MonolithicOffsets ==
  \A r \in Procs : InMonolithicBlock(r) =>
    LET i == blk[r][1]
        j == blk[r][2]
        RowEnd(k) == PrefixAll(mpi_size, r, TestSpaces, k) + SizeAll(mpi_size, r, TestSpaces[k + 1])
        ColEnd(k) == PrefixAll(mpi_size, r, TrialSpaces(i), k)
                       + SizeAll(mpi_size, r, TrialSpaces(i)[k + 1])
    IN  /\ offset[r].row = PrefixAll(mpi_size, r, TestSpaces, i)
        /\ offset[r].col = PrefixAll(mpi_size, r, TrialSpaces(i), j)
        /\ i > 0 => offset[r].row = RowEnd(i - 1)
        /\ j > 0 => offset[r].col = ColEnd(j - 1)
        /\ \A k \in 0 .. (i - 1) : RowEnd(k) <= offset[r].row
        /\ \A k \in 0 .. (j - 1) : ColEnd(k) <= offset[r].col

\* a rank of two works on the last block of a 2 x 2 array: both offsets have
\* advanced over maps that hold ghosts
C19_Witness ==
  \E r \in Procs :
    /\ InMonolithicBlock(r) /\ mpi_size = 2 /\ blk[r] = <<1, 1>>
    /\ SizeGhosts(mpi_size, r, 0) > 0
    /\ offset[r].row > 0 /\ offset[r].col > 0

\* the spaces rank r builds a boundary-value table for in the step taken
C20_Tables(r) ==
  CASE call.op = "A" /\ pc[r] = "block" /\ pc'[r] = "cells" -> {blk[r][1], blk[r][2]}
    [] call.op = "A" /\ pc[r] = "diag" /\ pc'[r] # "diag" /\ blk[r][1] = blk[r][2] -> {blk[r][1]}
    [] call.op = "b" /\ pc[r] = "vsetbc" /\ pc'[r] # "vsetbc" -> {blk[r][1]}
    [] call.op = "b" /\ pc[r] = "vsetbc_all" /\ (pc'[r] # pc[r] \/ blk'[r] # blk[r]) -> {blk[r][1]}
    [] OTHER -> {}

\* the gathers the claim asks for in that step
C20_Required(r) ==
  {e \in {<<"gather", k, V>> : k \in 1 .. Len(bcs), V \in C20_Tables(r)} :
     /\ contains(e[3], bcs[e[2]].space)
     /\ mpi_size > 1
     /\ bcs[e[2]].method # "pointwise"}

(***************************************************************************)
(* C20: while a rank builds a boundary-value table, it gathers the values  *)
(* of a condition exactly when the condition applies to the table's space, *)
(* more than one process takes part in the assembly and the method is not  *)
(* pointwise.                                                              *)
(***************************************************************************)
C20_GatherExactlyWhenNeeded ==
  [][\A r \in Procs :
       (Len(collectives'[r]) >= Len(collectives[r]) /\ call'.op = call.op /\ ncalls' = ncalls) =>
         LET new == {collectives'[r][n] : n \in (Len(collectives[r]) + 1) .. Len(collectives'[r])}
         IN  {e \in new : e[1] = "gather"} = C20_Required(r)]_vars

(***************************************************************************)
(* C22: assemble(b) on a linear-form array with a null entry ends in an    *)
(* error, with the vector still unallocated, no cell visited and no entry  *)
(* of b written.                                                           *)
(***************************************************************************)
C22_NullLinearForm ==
  (call.op = "b" /\ \E i \in DOMAIN l : ~l[i]) =>
    /\ call.status = "failed"
    /\ b = [kind |-> "empty", nblocks |-> 0, val |-> [r \in Procs |-> EmptyMap]]
    /\ \A r \in Procs : cellpos[r] = 0 /\ b_vec[r] = EmptyMap /\ pc[r] = "error"

\* assemble(b) was called with two linear forms of which only the second is null
C22_Witness ==
  /\ call.op = "b" /\ call.status = "failed"
  /\ NForms = 2 /\ l[0] /\ ~l[1]

\* the function spaces of the blocks of the call in progress
CallSpaces ==
  IF call.op = "b" THEN 0 .. (NForms - 1) ELSE (0 .. (NRows - 1)) \cup (0 .. (NCols - 1))

\* the condition belongs to the space of some block of the call
Compatible(bc) == \E V \in CallSpaces : contains(V, bc.space)

\* the list of conditions without those no block is compatible with
CompatibleBcs == SelectSeq(bcs, Compatible)

(***************************************************************************)
(* C21: a condition whose space is the space of no block is skipped        *)
(* without an error: every boundary-value table of the call is the table   *)
(* of the list without that condition, the tables in use are those, the    *)
(* call fails for no other reason than a null block or a malformed array,  *)
(* and the matrix one process assembles from a square array without null   *)
(* blocks is the matrix of the list without the condition.                 *)
(***************************************************************************)
C21_IncompatibleSkipped ==
  /\ \A r \in Procs : \A V \in CallSpaces : \A world \in {mpi_size, world_size} :
       CollectBcs(mpi_size, r, V, bcs, Len(bcs), world)
         = CollectBcs(mpi_size, r, V, CompatibleBcs, Len(CompatibleBcs), world)
  /\ \A r \in Procs : (call.op = "A" /\ pc[r] \in {"cells", "diag"}) =>
       boundary_values[r] =
         <<AxisBoundaryValues(mpi_size, r, function_space(blk[r][1], blk[r][2], 0), CompatibleBcs),
           AxisBoundaryValues(mpi_size, r, function_space(blk[r][1], blk[r][2], 1), CompatibleBcs)>>
  /\ call.status = "failed" => (HasNullBlock \/ Malformed)
  /\ (MatrixDone /\ call.was_empty /\ mpi_size = 1 /\ NRows = NCols /\ ~HasNullBlock) =>
       A.val = SingleMixed([key \in DOMAIN A.val |-> 0], 1, 0, kern, NRows, NCols,
                           CompatibleBcs, world_size)

\* a matrix was assembled from one form on field 0 under a list that holds a
\* condition on field 1 besides one on field 0, and boundary rows were set
C21_Witness ==
  /\ MatrixDone /\ call.was_empty /\ NRows = 1 /\ NCols = 1
  /\ Len(CompatibleBcs) > 0 /\ Len(CompatibleBcs) < Len(bcs)
  /\ \E r \in Procs : diag_rows[r] # {}

\* the number of entries of a sequence that equal x
Count(seq, x) == Cardinality({n \in DOMAIN seq : seq[n] = x})

\* MPI has been initialised, by another party or by a call of MPI_Init
EverInitialized(L) == L.outside \/ Count(L.calls, "MPI_Init") > 0

\* MPI has been finalised
EverFinalized(L) == Count(L.calls, "MPI_Finalize") > 0

(***************************************************************************)
(* C23: once MPI has been initialised it is reported initialised in every  *)
(* later state, also after finalize_mpi(): mpi_initialized() returns true  *)
(* exactly when MPI has ever been initialised, and mpi_finalized() returns *)
(* true only when MPI has been finalised.                                  *)
(***************************************************************************)
C23_InitializedIsSticky ==
  [][/\ MpiInitializedValue(lib) => MpiInitializedValue(lib')
     /\ EverInitialized(lib') => MpiInitializedValue(lib')
     /\ (mgr_ncalls' # mgr_ncalls /\ mgr_ret'.op = "mpi_initialized") =>
          (mgr_ret'.val = 1 <=> EverInitialized(lib))
     /\ (mgr_ncalls' # mgr_ncalls /\ mgr_ret'.op = "mpi_finalized" /\ mgr_ret'.val = 1) =>
          EverFinalized(lib)]_vars

\* mpi_initialized() has returned true after MPI was initialised and finalised
C23_Witness ==
  /\ mgr_ret = [op |-> "mpi_initialized", val |-> 1]
  /\ lib.calls = <<"MPI_Init", "MPI_Finalize">>

(***************************************************************************)
(* C24: over any sequence of init_mpi(), init_mpi(argc, argv, level) and   *)
(* finalize_mpi(), MPI is initialised at most once and finalised at most   *)
(* once; init_mpi(argc, argv, level) on an initialised MPI returns -100    *)
(* and initialises nothing, also after MPI was finalised; finalize_mpi()   *)
(* calls MPI_Finalize only on an MPI that is initialised and not finalised.*)
(***************************************************************************)
C24_InitOnceFinalizeOnce ==
  [][/\ Count(lib'.calls, "MPI_Init") + (IF lib'.outside THEN 1 ELSE 0) <= 1
     /\ Count(lib'.calls, "MPI_Finalize") <= 1
     /\ (mgr_ncalls' # mgr_ncalls /\ mgr_ret'.op = "init_mpi_args" /\ EverInitialized(lib)) =>
          (mgr_ret'.val = -100 /\ lib' = lib)
     /\ (mgr_ncalls' # mgr_ncalls /\ mgr_ret'.op = "init_mpi_args" /\ ~EverInitialized(lib)) =>
          (mgr_ret'.val \in ThreadLevels /\ lib'.calls = Append(lib.calls, "MPI_Init"))
     /\ Count(lib'.calls, "MPI_Finalize") > Count(lib.calls, "MPI_Finalize") =>
          (mgr_ret'.op = "finalize_mpi" /\ EverInitialized(lib) /\ ~EverFinalized(lib))]_vars

\* init_mpi(argc, argv, level) has returned -100 after MPI was initialised
\* by the manager and finalised, and finalize_mpi() had been called twice
C24_Witness ==
  /\ mgr_ret = [op |-> "init_mpi_args", val |-> -100]
  /\ lib.calls = <<"MPI_Init", "MPI_Finalize">>
  /\ mgr_ncalls = 4

\* the positions of a call in the list of library calls
Positions(seq, x) == {n \in DOMAIN seq : seq[n] = x}

(***************************************************************************)
(* C25: after any sequence of initMPI and initPETSc calls, the destructor  *)
(* finalises PETSc before MPI, calls PetscFinalize only if the manager     *)
(* initialised PETSc, and calls MPI::Finalize only if the manager's own    *)
(* initMPI initialised MPI (control_mpi true), never when PETSc or another *)
(* party did; PetscInitialize is called at most once; nothing is finalised *)
(* before the destructor runs.                                             *)
(***************************************************************************)
C25_OrderedFinalisation ==
  LET c == lib.calls IN
  /\ Count(c, "PetscInitialize") <= 1
  /\ ssm.alive => (Count(c, "PetscFinalize") = 0 /\ Count(c, "MPI_Finalize") = 0)
  /\ ~ssm.alive =>
       /\ Count(c, "PetscFinalize") <= Count(c, "PetscInitialize")
       /\ Count(c, "MPI_Finalize") <= 1
       /\ \A m \in Positions(c, "PetscFinalize") : \A n \in Positions(c, "MPI_Finalize") : m < n
       /\ Count(c, "MPI_Finalize") > 0 =>
            /\ ssm.control_mpi
            /\ Count(c, "MPI_Init") = 1
            /\ ~lib.outside
            /\ ~lib.petsc_began_mpi

\* the manager started MPI, then PETSc, and the destructor ended both
C25_Witness ==
  /\ ~ssm.alive
  /\ lib.calls = <<"MPI_Init", "PetscInitialize", "PetscFinalize", "MPI_Finalize">>

(***************************************************************************)
(* C26: _called is false on return from every call of the default          *)
(* form(A, P, b, x), after any calls; that call issues the deprecation     *)
(* warning exactly when the form(A, b, x) it dispatched to did not set the *)
(* flag, and never when form(A, b, x) is not overridden.                   *)
(***************************************************************************)
C26_WarningExactlyWhenFlagNotSet ==
  [][(nlp'.ncalls # nlp.ncalls /\ nlp'.last.op = "form4") =>
       /\ ~nlp'.called
       /\ nlp'.last.warned <=> ~nlp'.last.set
       /\ nlp.kind = "none" => ~nlp'.last.warned]_vars

\* the owned, and the ghost, local dofs of the blocks before block i on rank r
OwnedBefore(r, i) ==
  {jk \in (0 .. (i - 1)) \X (0 .. NCells) : jk[2] < SizeOwned(mpi_size, r, jk[1])}

GhostsBefore(r, i) ==
  {jk \in (0 .. (i - 1)) \X (0 .. NCells) : jk[2] < SizeGhosts(mpi_size, r, jk[1])}

\* the positions of the local vector that hold the owned, and the ghost,
\* entries of block i
OwnedRange(r, i) ==
  {Cardinality(OwnedBefore(r, i)) + k : k \in 0 .. (SizeOwned(mpi_size, r, i) - 1)}

GhostRange(r, i) ==
  {Cardinality(OwnedBefore(r, NForms)) + Cardinality(GhostsBefore(r, i)) + k :
     k \in 0 .. (SizeGhosts(mpi_size, r, i) - 1)}

\* rank r completes the copy, or the set_bc, of a block of the merged vector
CopiesBlock(r) ==
  call.op = "b" /\ pc[r] = "vcopy" /\ (pc'[r] # pc[r] \/ blk'[r] # blk[r])

SetsBcOfBlock(r) ==
  call.op = "b" /\ pc[r] = "vsetbc_all" /\ (pc'[r] # pc[r] \/ blk'[r] # blk[r])

(***************************************************************************)
(* C27: in the merged (monolithic) vector branch the owned entries of      *)
(* block i are written at the sum of the owned sizes of the preceding      *)
(* blocks, its ghost entries at the total owned size plus the sum of the   *)
(* ghost sizes of the preceding blocks; the ranges of the blocks are       *)
(* pairwise disjoint and cover the local vector; set_bc of block i acts on *)
(* exactly the owned range of block i (b laid out for the linear forms of  *)
(* _l).                                                                    *)
(***************************************************************************)
C27_MergedVectorRanges ==
  [][(call.op = "b" /\ call.status = "running" /\ call.branch = "monolithic"
        /\ b.nblocks = NForms) =>
       \A r \in Procs :
         /\ \A i \in DOMAIN l : \A j \in DOMAIN l :
              /\ OwnedRange(r, i) \cap GhostRange(r, j) = {}
              /\ i # j => /\ OwnedRange(r, i) \cap OwnedRange(r, j) = {}
                          /\ GhostRange(r, i) \cap GhostRange(r, j) = {}
         /\ UNION {OwnedRange(r, i) \cup GhostRange(r, i) : i \in DOMAIN l}
              = {key[2] : key \in DOMAIN b.val[r]}
         /\ CopiesBlock(r) =>
              LET i == blk[r][1]
                  N == SizeOwned(mpi_size, r, i)
                  O == Cardinality(OwnedBefore(r, i))
                  G == Cardinality(OwnedBefore(r, NForms)) + Cardinality(GhostsBefore(r, i))
              IN  /\ \A k \in 0 .. (N - 1) : b'.val[r][<<-1, O + k>>] = b_vec[r][k]
                  /\ \A k \in 0 .. (SizeGhosts(mpi_size, r, i) - 1) :
                       b'.val[r][<<-1, G + k>>] = b_vec[r][N + k]
                  /\ \A key \in DOMAIN b.val[r] :
                       key[2] \notin (OwnedRange(r, i) \cup GhostRange(r, i)) =>
                         b'.val[r][key] = b.val[r][key]
         /\ SetsBcOfBlock(r) =>
              LET i  == blk[r][1]
                  O  == Cardinality(OwnedBefore(r, i))
                  bv == SetBcBoundaryValues(mpi_size, r, i, CompatibleBcs)
              IN  \A key \in DOMAIN b.val[r] :
                    b'.val[r][key] =
                      IF key[2] \in OwnedRange(r, i) /\ (key[2] - O) \in DOMAIN bv
                      THEN bv[key[2] - O] ELSE b.val[r][key]]_vars

\* a merged vector of two blocks has been assembled on two ranks, one of
\* which holds a ghost entry, and a boundary value was set in block 1
C27_Witness ==
  /\ VectorDone /\ call.branch = "monolithic" /\ mpi_size = 2 /\ NForms = 2
  /\ b.nblocks = NForms
  /\ \E r \in Procs : GhostRange(r, 0) # {}
  /\ Len(bcs) = 2
  /\ b.val[0][<<-1, Cardinality(OwnedBefore(0, 1))>>] = 15

\* the entries of the container the call fills
ContainerVal == IF call.op = "A" THEN A.val ELSE b.val

(***************************************************************************)
(* C28: a second assemble(A), or assemble(b), into the container a first   *)
(* call filled, with the same forms and boundary conditions, leaves the    *)
(* container with the entries it held after the first call, in every       *)
(* topology.                                                               *)
(***************************************************************************)
C28_Idempotent ==
  (call.status = "done" /\ ~call.was_empty) => ContainerVal = call.prior_val

\* the positions of a container laid out for all blocks, and for form [0][0]
\* (form [0]) alone
AllBlocksLayout(r) ==
  IF call.op = "A" THEN DOMAIN ZeroMatrix(NRows, NCols)
  ELSE DOMAIN ZeroVector(b.kind, mpi_size, r, NForms)

FirstBlockLayout(r) ==
  IF call.op = "A" THEN BlockKeys(0, 0)
  ELSE {<<0, k>> : k \in 0 .. (SizeAll(mpi_size, r, 0) - 1)}

ContainerLayout(r) == IF call.op = "A" THEN DOMAIN A.val ELSE DOMAIN b.val[r]

(***************************************************************************)
(* C29: every call that gets past its entry runs exactly one of the three  *)
(* branches, and when the call allocated the container the branch matches  *)
(* the storage: nested on a nested container, merged (monolithic) on a     *)
(* container laid out for all blocks, single on a container laid out for   *)
(* form [0][0]; for every requested block type and every shape of the form *)
(* arrays.                                                                 *)
(***************************************************************************)
C29_BranchMatchesStorage ==
  (call.status \in {"running", "done"} \/ (call.status = "failed" /\ call.branch # "none")) =>
    /\ call.branch \in {"nested", "monolithic", "single"}
    /\ call.was_empty =>
         /\ call.branch = "nested" => ContainerKind = "nest"
         /\ call.branch = "monolithic" =>
              /\ ContainerKind = "mono"
              /\ \A r \in Procs : ContainerLayout(r) = AllBlocksLayout(r)
         /\ call.branch = "single" =>
              /\ ContainerKind = "single"
              /\ \A r \in Procs : ContainerLayout(r) = FirstBlockLayout(r)

\* the array masters(i), respectively coefficients(i), reads
ArrayRead == IF mpc_ret.op = "masters" THEN mpc.masters ELSE mpc.coefficients

\* the entries of the array that belong to slave i (0-based), by position
EntriesOfSlave(i) ==
  LET before == {sk \in (1 .. i) \X (1 .. Len(ArrayRead)) :
                   sk[2] <= mpc.offsets[sk[1] + 1] - mpc.offsets[sk[1]]}
      n == mpc.offsets[i + 2] - mpc.offsets[i + 1]
  IN  [x \in 1 .. n |-> ArrayRead[Cardinality(before) + x]]

(***************************************************************************)
(* C30: for every index i that passes the assert of masters(i),            *)
(* respectively coefficients(i), the call reads _offsets and the array     *)
(* only at positions inside them and returns exactly the entries at        *)
(* positions _offsets[i] .. _offsets[i + 1] - 1, those of the i-th slave.  *)
(***************************************************************************)
C30_ReadsInRange ==
  (mpc_ret.op \in {"masters", "coefficients"} /\ mpc_ret.status # "assert") =>
    /\ mpc_ret.i >= 0 /\ mpc_ret.i < Len(mpc.slaves)
    /\ mpc_ret.status = "returned"
    /\ mpc_ret.val = EntriesOfSlave(mpc_ret.i)

====
